---- MODULE Spec2Model ----
(***************************************************************************)
(* A model of server_script/tcp_server.py (class ProtobufTcpServer): the   *)
(* path sandbox, the file operations, the chunked upload sessions and the  *)
(* connection pump with its frame codec.                                   *)
(*                                                                         *)
(* Strings and byte strings are sequences of character codes (naturals).   *)
(* A path of the file system is the sequence of its components, each a     *)
(* string; <<>> is the file system's "/".  The file system holds no        *)
(* symbolic links, so Path.resolve() is the lexical normalisation.         *)
(***************************************************************************)
EXTENDS Integers, Sequences, FiniteSets, TLC

VARIABLES
    fs,               \* the file system: existing path |-> [type, data]
    upload_sessions,  \* self.upload_sessions, in insertion order: <<[id, s]>>
    last,             \* the request handled last and the response it got
    nreq,             \* the number of requests handled so far
    hist,             \* history of each upload session in the table (see UploadHistory)
    conn,             \* the connection: "open", "eof" (the client closed), "closed"
    wire,             \* the bytes the client has sent and recv has not returned yet
    buffer,           \* handle_client's buffer
    sent,             \* the frames written to the socket, in order
    frames,           \* history: the frames the client has sent, in order
    answered,         \* history: the frames parse_frame has returned, in order
    dispatched,       \* history: the requests given to process_frame_request
    reads,            \* history: has one recv completed several frames (several),
                      \* has a frame been completed by a later recv than the one
                      \* that brought its first bytes (across)
    download_sessions, \* self.download_sessions: <<[id, s]>> in insertion order
    workers,          \* the connection workers (threads running handle_client)
                      \* that are followed one statement at a time, by client id
    asked,            \* history: the request handled last, where a specification
                      \* follows it
    probe,            \* the codec function applied last, with what it was given
                      \* and what it returned
    flood             \* the length of handle_client's buffer on a connection
                      \* whose client writes nothing but bytes 0x00

pumpVars == <<conn, wire, buffer, sent, frames, answered, dispatched, reads>>

connVars == <<download_sessions, workers, asked>>

probeVars == <<probe, flood>>

vars == <<fs, upload_sessions, last, nreq, hist, conn, wire, buffer, sent, frames,
          answered, dispatched, reads, download_sessions, workers, asked, probe, flood>>

\* The file operations are followed for this many requests.
MaxFsRequests == 2

(***************************************************************************)
(* Characters and strings                                                  *)
(***************************************************************************)
Slash == 47
Dot == 46

DotDot == <<Dot, Dot>>

\* The names used by the inputs: "r", "r2", "d", "f", "n", "o", "s".
N_r == <<114>>
N_r2 == <<114, 50>>
N_d == <<100>>
N_f == <<102>>
N_n == <<110>>
N_o == <<111>>
N_s == <<115>>

\* The keys "newPath", "targetPath", "destinationPath" and "sessionId" of the
\* options map
K_newPath == <<110, 101, 119, 80, 97, 116, 104>>
K_targetPath == <<116, 97, 114, 103, 101, 116, 80, 97, 116, 104>>
K_destinationPath ==
    <<100, 101, 115, 116, 105, 110, 97, 116, 105, 111, 110, 80, 97, 116, 104>>
K_sessionId == <<115, 101, 115, 115, 105, 111, 110, 73, 100>>

Min(a, b) == IF a < b THEN a ELSE b
Max(a, b) == IF a > b THEN a ELSE b

StartsWith(s, p) == Len(s) >= Len(p) /\ SubSeq(s, 1, Len(p)) = p

RECURSIVE SplitFrom(_, _, _, _)
SplitFrom(s, i, cur, acc) ==
    IF i > Len(s) THEN Append(acc, cur)
    ELSE IF s[i] = Slash THEN SplitFrom(s, i + 1, <<>>, Append(acc, cur))
    ELSE SplitFrom(s, i + 1, Append(cur, s[i]), acc)

\* str.split('/')
Split(s) == SplitFrom(s, 1, <<>>, <<>>)

RECURSIVE JoinParts(_)
JoinParts(parts) ==
    IF parts = <<>> THEN <<>>
    ELSE <<Slash>> \o Head(parts) \o JoinParts(Tail(parts))

\* str(Path) of an absolute path
Str(parts) == IF parts = <<>> THEN <<Slash>> ELSE JoinParts(parts)

(***************************************************************************)
(* pathlib: parsing, joining, parent, resolve, relative_to                 *)
(***************************************************************************)
IsPart(c) == c # <<>> /\ c # <<Dot>>

\* PurePosixPath(s): empty and "." components are dropped, ".." is kept.
PurePath(s) ==
    [abs |-> Len(s) > 0 /\ s[1] = Slash, parts |-> SelectSeq(Split(s), IsPart)]

\* base / s, for an absolute base: an absolute s replaces the base.
JoinPath(base, s) ==
    LET p == PurePath(s) IN IF p.abs THEN p.parts ELSE base \o p.parts

\* Path.parent (lexical: the parent of a/.. is a)
Parent(parts) == IF parts = <<>> THEN <<>> ELSE SubSeq(parts, 1, Len(parts) - 1)

RECURSIVE Normalize(_, _, _)
Normalize(parts, i, acc) ==
    IF i > Len(parts) THEN acc
    ELSE IF parts[i] = DotDot THEN Normalize(parts, i + 1, Parent(acc))
    ELSE Normalize(parts, i + 1, Append(acc, parts[i]))

\* Path.resolve() on a file system without symbolic links
Resolve(parts) == Normalize(parts, 1, <<>>)

\* Path.relative_to(base) succeeds iff the parts of base are a prefix (lexically).
IsRelativeTo(parts, base) == StartsWith(parts, base)

(***************************************************************************)
(* The sandbox                                                             *)
(***************************************************************************)
root_dir == <<N_r>>

\* What a correct sandbox would test: root, or a descendant by path components.
UnderRoot(p) == StartsWith(p, root_dir)

\* get_safe_path: ok = FALSE stands for the ValueError it raises.
get_safe_path(path) ==
    LET stripped == IF Len(path) > 0 /\ path[1] = Slash THEN Tail(path) ELSE path
        target   == Resolve(JoinPath(root_dir, stripped))
    IN  IF StartsWith(Str(target), Str(root_dir)) THEN [ok |-> TRUE, path |-> target]
        ELSE [ok |-> FALSE, path |-> target]

(***************************************************************************)
(* The file system                                                         *)
(***************************************************************************)
DirEntry == [type |-> "dir", data |-> <<>>]
FileEntry(d) == [type |-> "file", data |-> d]

\* A file of n bytes whose content is not followed
SizedFile(n) == [type |-> "file", data |-> <<>>, size |-> n]

\* stat().st_size
StSize(e) == IF "size" \in DOMAIN e THEN e.size ELSE Len(e.data)

Exists(f, p) == p = <<>> \/ p \in DOMAIN f
IsDir(f, p) == p = <<>> \/ (p \in DOMAIN f /\ f[p].type = "dir")
IsFile(f, p) == p \in DOMAIN f /\ f[p].type = "file"

\* The kernel's walk along a path that may hold "..": err when a component that
\* is walked through is not an existing directory; the last one may be missing.
RECURSIVE Walk(_, _, _, _)
Walk(f, parts, i, cur) ==
    IF i > Len(parts) THEN [err |-> FALSE, path |-> cur]
    ELSE IF ~IsDir(f, cur) THEN [err |-> TRUE, path |-> cur]
    ELSE IF parts[i] = DotDot THEN Walk(f, parts, i + 1, Parent(cur))
    ELSE Walk(f, parts, i + 1, Append(cur, parts[i]))

OsPath(f, parts) == Walk(f, parts, 1, <<>>)

\* Path.exists(), is_dir(), is_file() of a path that may hold ".."
PathExists(f, parts) == LET w == OsPath(f, parts) IN ~w.err /\ Exists(f, w.path)
PathIsDir(f, parts) == LET w == OsPath(f, parts) IN ~w.err /\ IsDir(f, w.path)
PathIsFile(f, parts) == LET w == OsPath(f, parts) IN ~w.err /\ IsFile(f, w.path)

Put(f, p, e) == [q \in DOMAIN f \cup {p} |-> IF q = p THEN e ELSE f[q]]

\* a < b for two strings, as Python compares them: by code points, and a prefix
\* before what it is a prefix of
RECURSIVE StrLess(_, _)
StrLess(a, b) ==
    IF b = <<>> THEN FALSE
    ELSE IF a = <<>> THEN TRUE
    ELSE IF Head(a) # Head(b) THEN Head(a) < Head(b)
    ELSE StrLess(Tail(a), Tail(b))

\* Path.iterdir(): the children of a directory
Children(f, p) == {q \in DOMAIN f : Len(q) = Len(p) + 1 /\ Parent(q) = p}

\* the order of the names with no regard to case, which no part of the program
\* computes
RECURSIVE Lower(_)
Lower(str) ==
    IF str = <<>> THEN <<>>
    ELSE <<IF Head(str) >= 65 /\ Head(str) <= 90 THEN Head(str) + 32 ELSE Head(str)>>
         \o Lower(Tail(str))

\* sorted(paths) of paths in one directory: by the last component
RECURSIVE Sorted(_)
Sorted(paths) ==
    IF paths = {} THEN <<>>
    ELSE LET first == CHOOSE q \in paths :
                        \A x \in paths \ {q} : StrLess(q[Len(q)], x[Len(x)])
         IN  <<first>> \o Sorted(paths \ {first})

\* Remove p and everything below it (unlink, shutil.rmtree).
RemoveTree(f, p) == [q \in {x \in DOMAIN f : ~StartsWith(x, p)} |-> f[q]]

\* Path.mkdir(parents=True, exist_ok=...): every missing directory on the way is
\* created; a regular file on the way, or an existing last component when
\* exist_ok is false, is an error that leaves what was created so far.
RECURSIVE MkdirFrom(_, _, _, _, _)
MkdirFrom(f, parts, i, cur, exist_ok) ==
    IF i > Len(parts) THEN [ok |-> TRUE, fs |-> f]
    ELSE IF ~IsDir(f, cur) THEN [ok |-> FALSE, fs |-> f]
    ELSE IF parts[i] = DotDot THEN
        IF i = Len(parts) /\ ~exist_ok THEN [ok |-> FALSE, fs |-> f]
        ELSE MkdirFrom(f, parts, i + 1, Parent(cur), exist_ok)
    ELSE LET nxt == Append(cur, parts[i]) IN
        IF ~Exists(f, nxt) THEN MkdirFrom(Put(f, nxt, DirEntry), parts, i + 1, nxt, exist_ok)
        ELSE IF i = Len(parts) /\ (~exist_ok \/ ~IsDir(f, nxt)) THEN [ok |-> FALSE, fs |-> f]
        ELSE MkdirFrom(f, parts, i + 1, nxt, exist_ok)

Mkdir(f, parts, exist_ok) ==
    IF parts = <<>> THEN [ok |-> exist_ok, fs |-> f]
    ELSE MkdirFrom(f, parts, 1, <<>>, exist_ok)

(***************************************************************************)
(* Requests and responses                                                  *)
(***************************************************************************)
\* A request is the decoded dict: a function from the keys present to values.
Get(req, k, default) == IF k \in DOMAIN req THEN req[k] ELSE default

\* The record of the request handled last: the operation, the response's success
\* flag, the error kind, the paths get_safe_path returned to the handler (safe)
\* and the real paths the handler created, wrote, removed or renamed to (target).
\* sid is the upload session the request acted on, index the request's
\* chunkIndex and size the size the response reports.
\* The fields of a DOWNLOAD_REQ response: acceptedChunkSize, totalChunks,
\* fileSize, chunkIndex, done, and the data as the range of the file that was
\* read (offset, length) with its bytes where the file's content is followed
NoReply ==
    [action |-> "", acceptedChunkSize |-> 0, totalChunks |-> 0, fileSize |-> 0,
     chunkIndex |-> 0, offset |-> 0, length |-> 0, data |-> <<>>, done |-> FALSE,
     files |-> <<>>]

Outcome(op, success, kind, safe, target) ==
    [op |-> op, success |-> success, kind |-> kind, safe |-> safe, target |-> target,
     sid |-> <<>>, index |-> 0, size |-> 0, opened |-> 0, closed |-> 0,
     reply |-> NoReply, timed |-> FALSE, stamped |-> FALSE]

Fail(f, op, kind, safe) ==
    [fs |-> f, last |-> Outcome(op, FALSE, kind, safe, {})]

(***************************************************************************)
(* base64.b64decode (binascii.a2b_base64, not strict)                      *)
(***************************************************************************)
B64Value(c) ==
    IF c >= 65 /\ c <= 90 THEN c - 65
    ELSE IF c >= 97 /\ c <= 122 THEN c - 71
    ELSE IF c >= 48 /\ c <= 57 THEN c + 4
    ELSE IF c = 43 THEN 62
    ELSE IF c = 47 THEN 63
    ELSE 64

RECURSIVE B64From(_, _, _, _, _, _)
B64From(s, i, quad, left, pads, out) ==
    IF i > Len(s) THEN [ok |-> quad = 0, data |-> out]
    ELSE IF s[i] = 61 THEN
        IF quad >= 2 /\ quad + pads + 1 >= 4 THEN [ok |-> TRUE, data |-> out]
        ELSE B64From(s, i + 1, quad, left, IF quad >= 2 THEN pads + 1 ELSE pads, out)
    ELSE LET v == B64Value(s[i]) IN
        IF v >= 64 THEN B64From(s, i + 1, quad, left, pads, out)
        ELSE IF quad = 0 THEN B64From(s, i + 1, 1, v, 0, out)
        ELSE IF quad = 1 THEN
            B64From(s, i + 1, 2, v % 16, 0, Append(out, left * 4 + v \div 16))
        ELSE IF quad = 2 THEN
            B64From(s, i + 1, 3, v % 4, 0, Append(out, left * 16 + v \div 4))
        ELSE B64From(s, i + 1, 0, 0, 0, Append(out, left * 64 + v))

\* ok = FALSE stands for binascii.Error
b64decode(s) == B64From(s, 1, 0, 0, 0, <<>>)

(***************************************************************************)
(* The file operations                                                     *)
(***************************************************************************)
\* The file_info of a path: of its keys the name, the type and the size; the
\* path, the times and the permissions are left out
file_info(f, q) ==
    [name |-> q[Len(q)],
     type |-> IF IsDir(f, q) THEN "directory" ELSE "file",
     size |-> IF IsFile(f, q) THEN StSize(f[q]) ELSE 0]

Listing(f, items) == [i \in 1..Len(items) |-> file_info(f, items[i])]

\* handle_list_files
handle_list_files(f, req) ==
    LET path == Get(req, "path", <<Slash>>)
        sp == get_safe_path(path)
        t  == sp.path
    IN  IF ~sp.ok THEN Fail(f, "LIST_FILES", "invalid-path", {})
        ELSE IF ~Exists(f, t) THEN Fail(f, "LIST_FILES", "not-found", {t})
        ELSE IF ~IsDir(f, t) THEN Fail(f, "LIST_FILES", "wrong-type", {t})
        ELSE [fs |-> f,
              last |-> [Outcome("LIST_FILES", TRUE, "ok", {t}, {})
                            EXCEPT !.reply.files = Listing(f, Sorted(Children(f, t)))]]

\* handle_file_info and handle_download_file: the same checks, on a regular file
ReadFile(f, req, op) ==
    LET file_path == Get(req, "path", <<>>)
        sp == get_safe_path(file_path)
        t  == sp.path
    IN  IF file_path = <<>> THEN Fail(f, op, "missing-parameter", {})
        ELSE IF ~sp.ok THEN Fail(f, op, "invalid-path", {})
        ELSE IF ~Exists(f, t) THEN Fail(f, op, "not-found", {t})
        ELSE IF ~IsFile(f, t) THEN Fail(f, op, "wrong-type", {t})
        ELSE [fs |-> f,
              last |-> [Outcome(op, TRUE, "ok", {t}, {})
                            EXCEPT !.reply.fileSize = StSize(f[t]),
                                   !.reply.files =
                                        IF op = "FILE_INFO" THEN <<file_info(f, t)>> ELSE <<>>,
                                   !.reply.data =
                                        IF op = "DOWNLOAD_FILE" /\ "data" \in DOMAIN f[t]
                                        THEN f[t].data ELSE <<>>]]

handle_file_info(f, req) == ReadFile(f, req, "FILE_INFO")

handle_download_file(f, req) == ReadFile(f, req, "DOWNLOAD_FILE")

\* handle_delete_file
handle_delete_file(f, req) ==
    LET file_path == Get(req, "path", <<>>)
        sp == get_safe_path(file_path)
        t  == sp.path
    IN  IF file_path = <<>> THEN Fail(f, "DELETE_FILE", "missing-parameter", {})
        ELSE IF ~sp.ok THEN Fail(f, "DELETE_FILE", "invalid-path", {})
        ELSE IF ~Exists(f, t) THEN Fail(f, "DELETE_FILE", "not-found", {t})
        ELSE [fs |-> RemoveTree(f, t),
              last |-> Outcome("DELETE_FILE", TRUE, "ok", {t}, {t})]


\* os.rename of a tree: every path at or below src moves below dst.
Rebase(q, src, dst) ==
    IF StartsWith(q, src) THEN dst \o SubSeq(q, Len(src) + 1, Len(q)) ELSE q

MoveTree(f, src, dst) ==
    [q \in {Rebase(x, src, dst) : x \in DOMAIN f} |->
        f[CHOOSE x \in DOMAIN f : Rebase(x, src, dst) = q]]

\* handle_rename_file
handle_rename_file(f, req) ==
    LET old_path == Get(req, "path", <<>>)
        new_name == Get(req, "newName", <<>>)
        options  == Get(req, "options", <<>>)
        \* options.get('newPath') or options.get('targetPath') or ... or ''
        opt_path == IF Get(options, K_newPath, <<>>) # <<>> THEN options[K_newPath]
                    ELSE IF Get(options, K_targetPath, <<>>) # <<>>
                         THEN options[K_targetPath]
                    ELSE Get(options, K_destinationPath, <<>>)
        new_path == IF Get(req, "newPath", <<>>) # <<>> THEN req["newPath"] ELSE opt_path
        src == get_safe_path(old_path)
        dst == get_safe_path(new_path)
        target == IF new_path # <<>> THEN dst.path
                  ELSE JoinPath(Parent(src.path), new_name)
        safe == {src.path} \cup (IF new_path # <<>> /\ dst.ok THEN {dst.path} ELSE {})
        real == OsPath(f, target)
    IN  IF old_path = <<>> THEN Fail(f, "RENAME_FILE", "missing-parameter", {})
        ELSE IF ~src.ok THEN Fail(f, "RENAME_FILE", "invalid-path", {})
        ELSE IF ~Exists(f, src.path) THEN Fail(f, "RENAME_FILE", "not-found", {src.path})
        ELSE IF new_path # <<>> /\ ~dst.ok THEN
            Fail(f, "RENAME_FILE", "invalid-path", {src.path})
        ELSE IF new_path = <<>> /\ new_name = <<>> THEN
            Fail(f, "RENAME_FILE", "missing-parameter", safe)
        ELSE IF ~PathExists(f, Parent(target)) THEN
            Fail(f, "RENAME_FILE",
                 IF IsRelativeTo(Parent(target), root_dir) THEN "not-found"
                 ELSE "internal-error", safe)
        ELSE IF PathExists(f, target) THEN Fail(f, "RENAME_FILE", "already-exists", safe)
        \* Path.rename: the target's directory is a regular file, or the source
        \* would move below itself: OSError
        ELSE IF real.err \/ StartsWith(real.path, src.path) THEN
            Fail(f, "RENAME_FILE", "internal-error", safe)
        \* the entry is renamed, and then the response's newPath is computed with
        \* target_path.relative_to(root_dir), which raises for a target whose
        \* parts do not begin with the root's
        ELSE [fs |-> MoveTree(f, src.path, real.path),
              last |-> Outcome("RENAME_FILE", IsRelativeTo(target, root_dir),
                               IF IsRelativeTo(target, root_dir) THEN "ok"
                               ELSE "internal-error", safe, {real.path})]

\* handle_create_directory
handle_create_directory(f, req) ==
    LET parent_path == Get(req, "path", <<Slash>>)
        dir_name == Get(req, "name", <<>>)
        sp == get_safe_path(parent_path)
        safe == IF parent_path = <<Slash>> THEN {} ELSE {sp.path}
        target == IF parent_path = <<Slash>> THEN JoinPath(root_dir, dir_name)
                  ELSE JoinPath(sp.path, dir_name)
        mk == Mkdir(f, target, FALSE)
    IN  IF dir_name = <<>> THEN Fail(f, "CREATE_DIR", "missing-parameter", {})
        ELSE IF parent_path # <<Slash>> /\ ~sp.ok THEN
            Fail(f, "CREATE_DIR", "invalid-path", {})
        ELSE IF PathExists(f, target) THEN Fail(f, "CREATE_DIR", "already-exists", safe)
        ELSE IF ~mk.ok THEN Fail(mk.fs, "CREATE_DIR", "internal-error", safe)
        ELSE [fs |-> mk.fs,
              last |-> Outcome("CREATE_DIR", TRUE, "ok", safe, {OsPath(mk.fs, target).path})]

\* handle_upload_file
handle_upload_file(f, req) ==
    LET target_path == Get(req, "path", <<Slash>>)
        filename == IF Get(req, "filename", <<>>) # <<>> THEN req["filename"]
                    ELSE Get(req, "name", <<>>)
        file_data_b64 == Get(req, "data", <<>>)
        dec == b64decode(file_data_b64)
        sp == get_safe_path(target_path)
        safe == IF target_path = <<Slash>> THEN {} ELSE {sp.path}
        full_path == IF target_path = <<Slash>> THEN JoinPath(root_dir, filename)
                     ELSE JoinPath(sp.path, filename)
        mk == Mkdir(f, Parent(full_path), TRUE)
        real == OsPath(mk.fs, full_path)
    IN  IF filename = <<>> THEN Fail(f, "UPLOAD_FILE", "missing-parameter", {})
        ELSE IF file_data_b64 = <<>> THEN Fail(f, "UPLOAD_FILE", "missing-parameter", {})
        ELSE IF ~dec.ok THEN Fail(f, "UPLOAD_FILE", "decode-error", {})
        ELSE IF target_path # <<Slash>> /\ ~sp.ok THEN
            Fail(f, "UPLOAD_FILE", "invalid-path", {})
        ELSE IF ~mk.ok THEN Fail(mk.fs, "UPLOAD_FILE", "internal-error", safe)
        \* open(full_path, 'wb')
        ELSE IF real.err \/ IsDir(mk.fs, real.path) THEN
            Fail(mk.fs, "UPLOAD_FILE", "internal-error", safe)
        ELSE [fs |-> Put(mk.fs, real.path, FileEntry(dec.data)),
              last |-> Outcome("UPLOAD_FILE", TRUE, "ok", safe, {real.path})]

(***************************************************************************)
(* The upload sessions                                                     *)
(*                                                                         *)
(* self.upload_sessions is a dict, which keeps insertion order: a sequence *)
(* of [id, s].  A session's handle is "open" or "none".  A handle writes   *)
(* the file at the session's file_path and is buffered: the data of a      *)
(* write stays in the handle (pending) until the next seek, flush or close.*)
(***************************************************************************)
HasSession(tab, sid) == \E i \in 1..Len(tab) : tab[i].id = sid

SessionOf(tab, sid) == tab[CHOOSE i \in 1..Len(tab) : tab[i].id = sid].s

\* a pop that leaves the table as it is
PopSession_keep(tab, sid) == tab

\* dict.pop(sid, None)
PopSession(tab, sid) == SelectSeq(tab, LAMBDA e : e.id # sid)

\* dict[sid] = s for a key that is absent: appended
AddSession(tab, sid, s) == Append(tab, [id |-> sid, s |-> s])

\* a change of the session object held under sid
SetSession(tab, sid, s) ==
    [i \in 1..Len(tab) |-> IF tab[i].id = sid THEN [id |-> sid, s |-> s] ELSE tab[i]]

Zeros(n) == [i \in 1..n |-> 0]

\* a handle that writes at the start of the file whatever the offset
WriteAt_start(content, offset, data) ==
    [i \in 1..Max(Len(content), Len(data)) |->
        IF i <= Len(data) THEN data[i] ELSE content[i]]

\* handle.seek(offset); handle.write(data)
WriteAt(content, offset, data) ==
    IF data = <<>> THEN content
    ELSE [i \in 1..Max(Len(content), offset + Len(data)) |->
            IF i > offset /\ i <= offset + Len(data) THEN data[i - offset]
            ELSE IF i <= Len(content) THEN content[i]
            ELSE 0]

\* No write waits in the handle's buffer
NoWrite == [offset |-> 0, data |-> <<>>]

\* handle.flush(), and the flush that handle.seek and handle.close begin with:
\* the write the buffered handle still holds reaches the file
Flush(f, s) ==
    IF s.pending.data # <<>> /\ IsFile(f, s.file_path)
    THEN Put(f, s.file_path,
             FileEntry(WriteAt(f[s.file_path].data, s.pending.offset, s.pending.data)))
    ELSE f

\* The file system after the handle of the session under sid, if there is one, is
\* closed
CloseOld(f, tab, sid) ==
    IF HasSession(tab, sid) THEN Flush(f, SessionOf(tab, sid)) ELSE f

UpResult(f, tab, o, sid, size) ==
    [fs |-> f, upload_sessions |-> tab, last |-> [o EXCEPT !.sid = sid, !.size = size]]

\* The result r of a handler that called open() on an upload file opened times
\* and close() on a handle closed times
Handles(r, opened, closed) ==
    [r EXCEPT !.last.opened = opened, !.last.closed = closed]

\* The count of handles an "if handle: handle.close()" closes for session sid
Closes(tab, sid) ==
    IF HasSession(tab, sid) /\ SessionOf(tab, sid).handle = "open" THEN 1 ELSE 0

\* handle_upload_req; now is the clock's int(time.time() * 1000) as a string
handle_upload_req(f, tab, req, now) ==
    LET path == Get(req, "path", <<Slash>>)
        filename == Get(req, "name", <<>>)
        file_size == Get(req, "fileSize", 0)
        chunk_size == Min(Get(req, "chunkSize", 65536), 4 * 1024 * 1024)
        total_req == Get(req, "totalChunks", 0)
        options == Get(req, "options", <<>>)
        client_session_id ==
            IF K_sessionId \in DOMAIN options THEN options[K_sessionId] ELSE <<>>
        session_id == IF client_session_id # <<>> THEN client_session_id
                      ELSE now \o <<95>> \o filename
        popped == PopSession(tab, session_id)
        f1 == CloseOld(f, tab, session_id)
        sp == get_safe_path(path)
        safe == IF path = <<Slash>> THEN {} ELSE {sp.path}
        target_dir == IF path = <<Slash>> THEN root_dir ELSE sp.path
        full_path == Resolve(JoinPath(target_dir, filename))
        mk == Mkdir(f1, Parent(full_path), TRUE)
        total_chunks ==
            IF total_req <= 0 /\ chunk_size > 0
            THEN Max(1, (file_size + chunk_size - 1) \div chunk_size)
            ELSE total_req
        session == [path |-> path, filename |-> filename, file_path |-> full_path,
                    total_chunks |-> total_chunks, chunk_size |-> chunk_size,
                    file_size |-> file_size, received_chunks |-> {},
                    bytes_received |-> 0, handle |-> "open", pending |-> NoWrite]
        closes == Closes(tab, session_id)
        Err(g, t, kind) ==
            UpResult(g, t, Outcome("UPLOAD_REQ", FALSE, kind, {}, {}), <<>>, 0)
    IN  IF filename = <<>> THEN Err(f, tab, "missing-parameter")
        ELSE IF path # <<Slash>> /\ ~sp.ok
            THEN Handles(Err(f1, popped, "invalid-path"), 0, closes)
        ELSE IF ~mk.ok THEN Handles(Err(mk.fs, popped, "internal-error"), 0, closes)
        \* open(full_path, 'wb')
        ELSE IF IsDir(mk.fs, full_path)
            THEN Handles(Err(mk.fs, popped, "internal-error"), 0, closes)
        ELSE Handles(UpResult(Put(mk.fs, full_path, FileEntry(Zeros(file_size))),
                              AddSession(popped, session_id, session),
                              Outcome("UPLOAD_REQ", TRUE, "ok", safe, {full_path}),
                              session_id, 0),
                     1, closes)

\* a fallback to the first key
PickSession_first(tab, req) ==
    LET options == Get(req, "options", <<>>)
        given == IF K_sessionId \in DOMAIN options THEN options[K_sessionId] ELSE <<>>
    IN  IF given # <<>> THEN given
        ELSE IF tab = <<>> THEN <<>>
        ELSE tab[1].id

\* The session a request without options.sessionId falls back to: the last key.
PickSession(tab, req) ==
    LET options == Get(req, "options", <<>>)
        given == IF K_sessionId \in DOMAIN options THEN options[K_sessionId] ELSE <<>>
    IN  IF given # <<>> THEN given
        ELSE IF tab = <<>> THEN <<>>
        ELSE tab[Len(tab)].id

\* a count that grows on every delivery
BytesAfter_always(bytes_received, was_received, decoded_data) ==
    bytes_received + Len(decoded_data)

\* if not was_received: session['bytes_received'] += len(decoded_data)
BytesAfter(bytes_received, was_received, decoded_data) ==
    IF was_received THEN bytes_received ELSE bytes_received + Len(decoded_data)

\* handle_upload_data.  The data of a decoded request is always bytes, so the
\* base64 branch for str data is not taken.
handle_upload_data(f, tab, req) ==
    LET session_id == PickSession(tab, req)
        s == SessionOf(tab, session_id)
        chunk_index == Get(req, "chunkIndex", 0)
        decoded_data == Get(req, "data", <<>>)
        offset == chunk_index * s.chunk_size
        was_received == chunk_index \in s.received_chunks
        \* seek flushes the write before; write leaves this one in the buffer
        s2 == [s EXCEPT !.handle = "open",
                        !.pending = [offset |-> offset, data |-> decoded_data],
                        !.received_chunks = @ \cup {chunk_index},
                        !.bytes_received = BytesAfter(@, was_received, decoded_data)]
        f2 == Flush(f, s)
        Data(success, kind) ==
            [Outcome("UPLOAD_DATA", success, kind, {}, {}) EXCEPT !.index = chunk_index]
        Err(kind) == UpResult(f, tab, Data(FALSE, kind), session_id, 0)
    IN  IF session_id = <<>> THEN Err("session-not-found")
        ELSE IF ~HasSession(tab, session_id) THEN Err("session-not-found")
        \* open(session['file_path'], 'r+b') of a session whose handle is None
        ELSE IF s.handle = "none" /\ ~IsFile(f, s.file_path) THEN Err("internal-error")
        ELSE Handles(UpResult(f2, SetSession(tab, session_id, s2), Data(TRUE, "ok"),
                              session_id, Cardinality(s2.received_chunks)),
                     IF s.handle = "none" THEN 1 ELSE 0, 0)

\* an UPLOAD_END that does not look for missing chunks
MissingChunks_none(total_chunks, received_chunks) == {}

\* the indices of range(total_chunks) that are not in received_chunks
MissingChunks(total_chunks, received_chunks) ==
    {i \in 0..(total_chunks - 1) : i \notin received_chunks}

\* an UPLOAD_END that does not compare the sizes
SizeMismatch_never(expected_file_size, actual_size) == FALSE

\* expected_file_size > 0 and actual_size != expected_file_size
SizeMismatch(expected_file_size, actual_size) ==
    expected_file_size > 0 /\ actual_size # expected_file_size

\* handle_upload_end
handle_upload_end(f, tab, req) ==
    LET session_id == PickSession(tab, req)
        s == SessionOf(tab, session_id)
        missing_chunks == MissingChunks(s.total_chunks, s.received_chunks)
        \* file_handle.flush(); file_handle.close(); session['handle'] = None
        f2 == Flush(f, s)
        closed == SetSession(tab, session_id,
                             [s EXCEPT !.handle = "none", !.pending = NoWrite])
        actual_size == IF Exists(f2, s.file_path)
                       THEN (IF IsFile(f2, s.file_path) THEN Len(f2[s.file_path].data) ELSE 0)
                       ELSE 0
        Err(g, t, kind, size) ==
            UpResult(g, t, Outcome("UPLOAD_END", FALSE, kind, {}, {}), session_id, size)
    IN  IF session_id = <<>> THEN Err(f, tab, "session-not-found", 0)
        ELSE IF ~HasSession(tab, session_id) THEN Err(f, tab, "session-not-found", 0)
        ELSE IF missing_chunks # {} THEN Err(f, tab, "incomplete-upload", 0)
        ELSE IF SizeMismatch(s.file_size, actual_size) THEN
            Handles(Err(f2, closed, "size-mismatch", actual_size),
                    0, Closes(tab, session_id))
        ELSE Handles(UpResult(f2, PopSession(tab, session_id),
                              Outcome("UPLOAD_END", TRUE, "ok", {}, {}),
                              session_id, actual_size),
                     0, Closes(tab, session_id))

(***************************************************************************)
(* Download sessions.  self.download_sessions is <<[id, s]>> like the      *)
(* upload table.  A file whose content is not followed is an entry with a  *)
(* size in the place of its data: only its length is known.                *)
(***************************************************************************)
MAX_STREAM_CHUNK_BYTES == 4 * 1024 * 1024
DEFAULT_STREAM_CHUNK_BYTES == 2 * 1024 * 1024
MIN_STREAM_CHUNK_BYTES == 64 * 1024

\* 'action', 'chunkIndex', 'chunkSize'; 'start', 'chunk', 'finish', 'abort'
K_action == <<97, 99, 116, 105, 111, 110>>
K_chunkIndex == <<99, 104, 117, 110, 107, 73, 110, 100, 101, 120>>
K_chunkSize == <<99, 104, 117, 110, 107, 83, 105, 122, 101>>
A_start == <<115, 116, 97, 114, 116>>
A_chunk == <<99, 104, 117, 110, 107>>
A_finish == <<102, 105, 110, 105, 115, 104>>
A_abort == <<97, 98, 111, 114, 116>>

\* 'unknown', the client id of a request that carries none; 'dl_'
S_unknown == <<117, 110, 107, 110, 111, 119, 110>>
S_dl == <<100, 108, 95>>

\* A value dict.get returns: None, a str or an int
PyNone == [kind |-> "none", str |-> <<>>, int |-> 0]
PyStr(v) == [kind |-> "str", str |-> v, int |-> 0]
PyInt(n) == [kind |-> "int", str |-> <<>>, int |-> n]

\* options.get(k): the values of the options map are str
OptionOf(options, k) == IF k \in DOMAIN options THEN PyStr(options[k]) ELSE PyNone

\* request.get(k) of a str field and of an int field
StrOf(req, k) == IF k \in DOMAIN req THEN PyStr(req[k]) ELSE PyNone
IntOf(req, k) == IF k \in DOMAIN req THEN PyInt(req[k]) ELSE PyNone

\* bool(x), and a or b
Truthy(x) ==
    CASE x.kind = "none" -> FALSE
      [] x.kind = "str" -> x.str # <<>>
      [] x.kind = "int" -> x.int # 0

Or(a, b) == IF Truthy(a) THEN a ELSE b

\* str.strip() of spaces
RECURSIVE Strip(_)
Strip(str) ==
    IF str # <<>> /\ Head(str) = 32 THEN Strip(Tail(str))
    ELSE IF str # <<>> /\ str[Len(str)] = 32 THEN Strip(SubSeq(str, 1, Len(str) - 1))
    ELSE str

RECURSIVE DigitsValue(_, _)
DigitsValue(digits, acc) ==
    IF digits = <<>> THEN acc
    ELSE DigitsValue(Tail(digits), acc * 10 + (Head(digits) - 48))

\* int(str): a sign and decimal digits, spaces around them; anything else is the
\* ValueError.  (Underscores between digits are not read.)
IntOfStr(str) ==
    LET text == Strip(str)
        signed == text # <<>> /\ text[1] \in {43, 45}
        digits == IF signed THEN Tail(text) ELSE text
        value == DigitsValue(digits, 0)
    IN  IF digits = <<>> \/ \E i \in 1..Len(digits) : digits[i] < 48 \/ digits[i] > 57
        THEN [ok |-> FALSE, value |-> 0]
        ELSE [ok |-> TRUE, value |-> IF signed /\ text[1] = 45 THEN 0 - value ELSE value]

\* _to_int(value, default): int(value), the default on TypeError or ValueError
to_int(value, default) ==
    CASE value.kind = "none" -> default
      [] value.kind = "int" -> value.int
      [] value.kind = "str" ->
            IF IntOfStr(value.str).ok THEN IntOfStr(value.str).value ELSE default

\* seek(offset); read(n), of a file entry: the range read and its bytes
ReadAt(e, offset, n) ==
    LET length == Max(0, Min(n, StSize(e) - offset))
    IN  [offset |-> offset, length |-> length,
         data |-> IF "size" \in DOMAIN e THEN <<>>
                  ELSE SubSeq(e.data, offset + 1, offset + length)]

\* dict[sid] = s: a key that is present keeps its place
PutSession(tab, sid, s) ==
    IF HasSession(tab, sid) THEN SetSession(tab, sid, s) ELSE AddSession(tab, sid, s)

DlResult(f, dtab, success, kind, safe, sid, reply) ==
    [fs |-> f, download_sessions |-> dtab,
     last |-> [Outcome("DOWNLOAD_REQ", success, kind, safe, {})
                  EXCEPT !.sid = sid, !.reply = reply, !.index = reply.chunkIndex]]

\* _to_int(request.get('chunkIndex') or options.get('chunkIndex'), nextChunk)
RequestedIndex(req, options, next_chunk) ==
    to_int(Or(IntOf(req, "chunkIndex"), OptionOf(options, K_chunkIndex)), next_chunk)

\* a clamp that has no upper end
ChunkBytes_nomax(requested_chunk) ==
    Max(MIN_STREAM_CHUNK_BYTES, to_int(requested_chunk, DEFAULT_STREAM_CHUNK_BYTES))

\* max(MIN, min(_to_int(requested_chunk, DEFAULT), MAX))
ChunkBytes(requested_chunk) ==
    Max(MIN_STREAM_CHUNK_BYTES,
        Min(to_int(requested_chunk, DEFAULT_STREAM_CHUNK_BYTES), MAX_STREAM_CHUNK_BYTES))

\* a session that counts the bytes of every chunk it serves
Served_always(session, requested_index, length) ==
    [session EXCEPT !.servedChunks = @ \cup {requested_index},
                    !.bytesSent = @ + length,
                    !.nextChunk = Max(@, requested_index + 1)]

\* The session after it served length bytes as chunk requested_index
Served(session, requested_index, length) ==
    [session EXCEPT
        !.servedChunks = @ \cup {requested_index},
        !.bytesSent = IF requested_index \in session.servedChunks THEN @ ELSE @ + length,
        !.nextChunk = Max(@, requested_index + 1)]

\* handle_download_req; now is the clock's int(time.time() * 1000) as a string.
\* The statements that serve a chunk stand after the "if action == 'chunk'"
\* block, not in it: every action but start runs them, and each path through
\* them returns, so the blocks of finish and abort below them are never
\* reached.  An action that is not chunk reads session_id before any assignment
\* to it: the UnboundLocalError is caught by the handler's except.
handle_download_req(f, dtab, req, now) ==
    LET client_id == Get(req, "__client_id", S_unknown)
        file_path == Get(req, "path", <<>>)
        sp == get_safe_path(file_path)
        target_path == sp.path
        options == Get(req, "options", <<>>)
        action == Or(OptionOf(options, K_action), StrOf(req, "action"))
        Err(kind, safe) ==
            DlResult(f, dtab, FALSE, kind, safe, <<>>,
                     [NoReply EXCEPT !.action = action.str])
        \* action == 'start'
        requested_chunk == Or(OptionOf(options, K_chunkSize), IntOf(req, "chunkSize"))
        chunk_bytes == ChunkBytes(requested_chunk)
        start_size == StSize(f[target_path])
        start_chunks == Max(1, (start_size + chunk_bytes - 1) \div chunk_bytes)
        start_id == S_dl \o now \o <<95>> \o target_path[Len(target_path)]
        started == [path |-> file_path, absolutePath |-> target_path,
                    fileSize |-> start_size, chunkSize |-> chunk_bytes,
                    totalChunks |-> start_chunks, nextChunk |-> 0, bytesSent |-> 0,
                    clientId |-> client_id, servedChunks |-> {}]
        \* action == 'chunk'
        session_id == Or(OptionOf(options, K_sessionId), StrOf(req, "sessionId"))
        session == SessionOf(dtab, session_id.str)
        requested_index == RequestedIndex(req, options, session.nextChunk)
        start_offset == requested_index * session.chunkSize
        chunk_data == ReadAt(f[session.absolutePath], start_offset, session.chunkSize)
        Chunk(done) ==
            [action |-> action.str, acceptedChunkSize |-> 0,
             totalChunks |-> session.totalChunks, fileSize |-> session.fileSize,
             chunkIndex |-> requested_index, offset |-> chunk_data.offset,
             length |-> chunk_data.length, data |-> chunk_data.data, done |-> done]
    IN  IF file_path = <<>> THEN Err("missing-parameter", {})
        ELSE IF ~sp.ok THEN Err("internal-error", {})
        ELSE IF ~Exists(f, target_path) THEN Err("not-found", {target_path})
        ELSE IF ~IsFile(f, target_path) THEN Err("wrong-type", {target_path})
        ELSE IF ~Truthy(action) THEN Err("missing-parameter", {target_path})
        ELSE IF action.str = A_start THEN
            DlResult(f, PutSession(dtab, start_id, started), TRUE, "ok", {target_path},
                     start_id,
                     [NoReply EXCEPT !.action = action.str,
                                     !.acceptedChunkSize = chunk_bytes,
                                     !.totalChunks = start_chunks,
                                     !.fileSize = start_size])
        ELSE IF action.str = A_chunk
                /\ (~Truthy(session_id) \/ ~HasSession(dtab, session_id.str))
            THEN Err("session-not-found", {target_path})
        \* session = self.download_sessions[session_id], session_id unbound
        ELSE IF action.str # A_chunk THEN Err("internal-error", {target_path})
        ELSE IF requested_index < 0 \/ requested_index >= session.totalChunks
            THEN DlResult(f, dtab, FALSE, "out-of-range", {target_path}, session_id.str,
                          [NoReply EXCEPT !.action = action.str,
                                          !.chunkIndex = requested_index])
        \* open(absolute_path, 'rb')
        ELSE IF ~IsFile(f, session.absolutePath) THEN Err("internal-error", {target_path})
        ELSE IF chunk_data.length = 0
            THEN DlResult(f, dtab, TRUE, "ok", {target_path}, session_id.str, Chunk(TRUE))
        ELSE DlResult(f, SetSession(dtab, session_id.str,
                                    Served(session, requested_index, chunk_data.length)),
                      TRUE, "ok", {target_path}, session_id.str, Chunk(FALSE))

(***************************************************************************)
(* The end of a connection: handle_client's finally block.  The worker of  *)
(* a client is at pc "serving" while its loop runs; the block makes the    *)
(* list of its sessions by iterating the table ("sweeping"), then pops     *)
(* them ("popping").  Workers are threads: a step of another worker may    *)
(* come between two steps of the iteration, and a dict iterator raises     *)
(* RuntimeError from next() when the dict's size is not the one it had    *)
(* when the iteration began.  The exception leaves the finally block and   *)
(* ends the thread ("raised"); a block that completes ends it "done".      *)
(***************************************************************************)
\* host:port of the two clients that are followed: 'a' and 'b'
Clients == {<<97>>, <<98>>}

\* uploads: history, the ids of the upload sessions that requests of this
\* connection created
NewWorker == [pc |-> "serving", size |-> 0, seen |-> {}, stale |-> <<>>, uploads |-> {}]

\* [sid for sid, session in self.download_sessions.items()
\*      if session.get('clientId') == client_id], of an undisturbed iteration
stale_sessions(tab, client_id) ==
    LET At(i) == tab[i]
        match == {i \in 1..Len(tab) : At(i).s.clientId = client_id}
        RECURSIVE StaleFrom(_)
        StaleFrom(i) ==
            IF i > Len(tab) THEN <<>>
            ELSE (IF i \in match THEN <<At(i).id>> ELSE <<>>) \o StaleFrom(i + 1)
    IN  StaleFrom(1)

\* a sweep that pops nothing
PopStale_none(tab, stale) == tab

\* for sid in stale_sessions: self.download_sessions.pop(sid, None)
RECURSIVE PopStale(_, _)
PopStale(tab, stale) ==
    IF stale = <<>> THEN tab
    ELSE PopStale(IF HasSession(tab, Head(stale)) THEN PopSession(tab, Head(stale)) ELSE tab,
                  Tail(stale))

(***************************************************************************)
(* Bytes: CRC8, little-endian integers, UTF-8                              *)
(***************************************************************************)
CRC8_POLY == 7

Bit(v, i) == (v \div (2 ^ i)) % 2

XorBits(a, b) ==
    LET x(i) == ((Bit(a, i) + Bit(b, i)) % 2) * (2 ^ i)
    IN  x(0) + x(1) + x(2) + x(3) + x(4) + x(5) + x(6) + x(7)

\* a ^ b on bytes; a and b are evaluated once, then their bits are taken
Xor8(a, b) == CHOOSE r \in {XorBits(x, y) : x \in {a}, y \in {b}} : TRUE

\* the eight shifts of _build_crc8_table on one value
RECURSIVE Crc8Shift(_, _)
Crc8Shift(crc, n) ==
    IF n = 0 THEN crc
    ELSE Crc8Shift(IF crc >= 128 THEN Xor8((crc * 2) % 256, CRC8_POLY)
                   ELSE (crc * 2) % 256,
                   n - 1)

CRC8_TABLE == [value \in 0..255 |-> Crc8Shift(value, 8)]

\* crc = CRC8_TABLE[crc ^ byte]
Crc8Step(crc, byte) == CRC8_TABLE[Xor8(crc, byte)]

\* the loop over the bytes of data from index i on, eight bytes at a time where
\* eight are left
RECURSIVE Crc8From(_, _, _)
Crc8From(data, i, crc) ==
    IF i > Len(data) THEN crc
    ELSE IF i + 7 <= Len(data) THEN
        CHOOSE r \in
            {Crc8From(data, i + 8, c) :
                c \in {Crc8Step(Crc8Step(Crc8Step(Crc8Step(Crc8Step(Crc8Step(
                          Crc8Step(Crc8Step(crc, data[i]), data[i + 1]), data[i + 2]),
                          data[i + 3]), data[i + 4]), data[i + 5]), data[i + 6]),
                          data[i + 7])}} : TRUE
    ELSE CHOOSE r \in {Crc8From(data, i + 1, c) : c \in {Crc8Step(crc, data[i])}} : TRUE

\* the loop begun with another crc than 0
calculate_crc8_seed(data) == Crc8From(data, 1, 255)

calculate_crc8(data) == Crc8From(data, 1, 0)

\* struct.pack('<I', n), struct.pack('<H', n) and the unpacking of both
PackU32(n) == <<n % 256, (n \div 256) % 256, (n \div 65536) % 256, (n \div 16777216) % 256>>
PackU16(n) == <<n % 256, (n \div 256) % 256>>
UnpackU32(b) == b[1] + 256 * b[2] + 65536 * b[3] + 16777216 * b[4]
UnpackU16(b) == b[1] + 256 * b[2]

\* buffer[a:b] of Python, on 0-based a and b
Slice(buf, a, b) == SubSeq(buf, a + 1, Min(b, Len(buf)))

IsCont(b) == b >= 128 /\ b < 192

\* bytes.decode('utf-8'): the code points, or the failure of the strict decoder
RECURSIVE Utf8From(_, _, _)
Utf8From(b, i, out) ==
    LET n == Len(b) - i + 1
        c == b[i]
        Cont(k) == IsCont(b[i + k])
    IN  IF i > Len(b) THEN [ok |-> TRUE, value |-> out]
        ELSE IF c < 128 THEN Utf8From(b, i + 1, Append(out, c))
        ELSE IF c >= 194 /\ c <= 223 /\ n >= 2 /\ Cont(1) THEN
            Utf8From(b, i + 2, Append(out, (c - 192) * 64 + (b[i + 1] - 128)))
        ELSE IF c >= 224 /\ c <= 239 /\ n >= 3 /\ Cont(1) /\ Cont(2)
                /\ (c = 224 => b[i + 1] >= 160) /\ (c = 237 => b[i + 1] < 160) THEN
            Utf8From(b, i + 3, Append(out, (c - 224) * 4096 + (b[i + 1] - 128) * 64
                                           + (b[i + 2] - 128)))
        ELSE IF c >= 240 /\ c <= 244 /\ n >= 4 /\ Cont(1) /\ Cont(2) /\ Cont(3)
                /\ (c = 240 => b[i + 1] >= 144) /\ (c = 244 => b[i + 1] < 144) THEN
            Utf8From(b, i + 4, Append(out, (c - 240) * 262144 + (b[i + 1] - 128) * 4096
                                           + (b[i + 2] - 128) * 64 + (b[i + 3] - 128)))
        ELSE [ok |-> FALSE, value |-> <<>>]

Utf8Decode(b) == Utf8From(b, 1, <<>>)

\* str.encode('utf-8') of one code point and of a string
Utf8Char(c) ==
    IF c < 128 THEN <<c>>
    ELSE IF c < 2048 THEN <<192 + (c \div 64), 128 + (c % 64)>>
    ELSE IF c < 65536 THEN
        <<224 + (c \div 4096), 128 + ((c \div 64) % 64), 128 + (c % 64)>>
    ELSE <<240 + (c \div 262144), 128 + ((c \div 4096) % 64),
           128 + ((c \div 64) % 64), 128 + (c % 64)>>

RECURSIVE Utf8Encode(_)
Utf8Encode(str) ==
    IF str = <<>> THEN <<>> ELSE Utf8Char(Head(str)) \o Utf8Encode(Tail(str))

(***************************************************************************)
(* The frame codec                                                         *)
(*   AA 55 | length (4, LE) | sequence (2, LE) | command | format | data | *)
(*   crc8 | 55 AA                                                          *)
(***************************************************************************)
FORMAT_PROTOBUF == 2
MAX_FRAME_DATA == 4 * 1024 * 1024

\* the index of the first AA 55 in the buffer, -1 when there is none
RECURSIVE MagicFrom(_, _)
MagicFrom(buf, i) ==
    IF i >= Len(buf) - 1 THEN -1
    ELSE IF buf[i + 1] = 170 /\ buf[i + 2] = 85 THEN i
    ELSE MagicFrom(buf, i + 1)

NoFrame == [ok |-> FALSE, frame |-> <<>>, consumed |-> 0]

\* parse_frame: None, or the frame and the count of bytes it is made of.  A crc8
\* that does not match is logged and the frame is taken all the same.
parse_frame(buffer0) ==
    LET magic_index == MagicFrom(buffer0, 0)
        buf == IF magic_index > 0 THEN Slice(buffer0, magic_index, Len(buffer0))
                  ELSE buffer0
        data_length == UnpackU32(Slice(buf, 2, 6))
        total_length == 13 + data_length
        data_end == 10 + data_length
        trailer_pos == data_end + 1
    IN  IF Len(buffer0) < 13 THEN NoFrame
        ELSE IF magic_index = -1 THEN NoFrame
        ELSE IF Len(buf) < 6 THEN NoFrame
        ELSE IF data_length > MAX_FRAME_DATA THEN NoFrame
        ELSE IF Len(buf) < total_length THEN NoFrame
        ELSE IF trailer_pos + 1 >= Len(buf) THEN NoFrame
        ELSE IF buf[trailer_pos + 1] * 256 + buf[trailer_pos + 2] # 21930
             THEN NoFrame
        ELSE [ok |-> TRUE,
              frame |-> [command |-> buf[9], format |-> buf[10],
                         sequence |-> UnpackU16(Slice(buf, 6, 8)),
                         data |-> Slice(buf, 10, data_end),
                         data_length |-> data_length,
                         crc |-> buf[data_end + 1]],
              consumed |-> total_length]

\* The bytes of a frame, as build_response_frame lays them out, and a client
\* that builds its frames the same way
BuildFrame(command, format_type, data_bytes, sequence) ==
    LET body == PackU32(Len(data_bytes)) \o PackU16(sequence)
                \o <<command, format_type>> \o data_bytes
    IN  <<170, 85>> \o body \o <<calculate_crc8(body)>> \o <<85, 170>>

\* every format tag taken for 0x02
IsProtobuf_any(frame) == TRUE

\* the test of handle_frame_protocol on the frame's format tag
IsProtobuf(frame) == frame.format = FORMAT_PROTOBUF

(***************************************************************************)
(* The protobuf codec: UnifiedRequest in, UnifiedResponse out              *)
(***************************************************************************)
\* request[k] = v
SetKey(req, k, v) == [x \in DOMAIN req \cup {k} |-> IF x = k THEN v ELSE req[x]]

\* _decode_varint; the failure is the ValueError
RECURSIVE VarintFrom(_, _, _, _)
VarintFrom(data, offset, result, unit) ==
    IF offset >= Len(data) THEN [ok |-> FALSE, value |-> 0, offset |-> offset]
    ELSE LET byte == data[offset + 1]
         IN  IF byte < 128
             THEN [ok |-> TRUE, value |-> result + byte * unit, offset |-> offset + 1]
             ELSE VarintFrom(data, offset + 1, result + (byte - 128) * unit, unit * 128)

decode_varint(data, offset) == VarintFrom(data, offset, 0, 1)

decode_field(data, offset) ==
    LET tag == decode_varint(data, offset)
    IN  [ok |-> tag.ok, field_number |-> tag.value \div 8, wire_type |-> tag.value % 8,
         offset |-> tag.offset]

decode_bytes(data, offset) ==
    LET length == decode_varint(data, offset)
        end == length.offset + length.value
    IN  IF ~length.ok \/ end > Len(data) THEN [ok |-> FALSE, value |-> <<>>, offset |-> offset]
        ELSE [ok |-> TRUE, value |-> Slice(data, length.offset, end), offset |-> end]

decode_string(data, offset) ==
    LET raw == decode_bytes(data, offset)
        text == Utf8Decode(raw.value)
    IN  IF raw.ok /\ text.ok THEN [ok |-> TRUE, value |-> text.value, offset |-> raw.offset]
        ELSE [ok |-> FALSE, value |-> <<>>, offset |-> offset]

decode_bool(data, offset) ==
    LET value == decode_varint(data, offset)
    IN  [ok |-> value.ok, value |-> value.value # 0, offset |-> value.offset]

\* Skipping a field that is not known: the offset after it, or stop for a wire
\* type that cannot be skipped (break), or the failure of the decoding
SkipField(data, wire_type, offset) ==
    LET Moved(o) == [ok |-> TRUE, stop |-> FALSE, offset |-> o]
        v == decode_varint(data, offset)
        b == decode_bytes(data, offset)
    IN  IF wire_type = 0 THEN [ok |-> v.ok, stop |-> FALSE, offset |-> v.offset]
        ELSE IF wire_type = 1 THEN Moved(offset + 8)
        ELSE IF wire_type = 2 THEN [ok |-> b.ok, stop |-> FALSE, offset |-> b.offset]
        ELSE IF wire_type = 5 THEN Moved(offset + 4)
        ELSE [ok |-> TRUE, stop |-> TRUE, offset |-> offset]

operation_map(operation_value) ==
    CASE operation_value = 1 -> "PING"
      [] operation_value = 2 -> "PONG"
      [] operation_value = 3 -> "CONNECT"
      [] operation_value = 4 -> "DISCONNECT"
      [] operation_value = 16 -> "LIST_FILES"
      [] operation_value = 17 -> "FILE_INFO"
      [] operation_value = 18 -> "CREATE_DIR"
      [] operation_value = 19 -> "DELETE_FILE"
      [] operation_value = 20 -> "RENAME_FILE"
      [] operation_value = 32 -> "UPLOAD_FILE"
      [] operation_value = 33 -> "DOWNLOAD_FILE"
      [] operation_value = 48 -> "UPLOAD_REQ"
      [] operation_value = 49 -> "UPLOAD_DATA"
      [] operation_value = 50 -> "UPLOAD_END"
      [] operation_value = 51 -> "DOWNLOAD_REQ"
      [] operation_value = 52 -> "DOWNLOAD_DATA"
      [] operation_value = 53 -> "DOWNLOAD_END"
      [] OTHER -> "UNKNOWN"

None == [set |-> FALSE, v |-> <<>>]
Some(v) == [set |-> TRUE, v |-> v]

\* The loop over one entry of the options map: key and value as the loop leaves
\* them, or the failure of the decoding
RECURSIVE EntryFrom(_, _, _, _)
EntryFrom(entry_bytes, entry_offset, key, value) ==
    LET fld == decode_field(entry_bytes, entry_offset)
        str == decode_string(entry_bytes, fld.offset)
        skp == SkipField(entry_bytes, fld.wire_type, fld.offset)
        Left == [ok |-> TRUE, key |-> key, value |-> value]
        Failed == [ok |-> FALSE, key |-> key, value |-> value]
    IN  IF entry_offset >= Len(entry_bytes) THEN Left
        ELSE IF ~fld.ok THEN Failed
        ELSE IF fld.field_number = 1 THEN
            IF str.ok THEN EntryFrom(entry_bytes, str.offset, Some(str.value), value)
            ELSE Failed
        ELSE IF fld.field_number = 2 THEN
            IF str.ok THEN EntryFrom(entry_bytes, str.offset, key, Some(str.value))
            ELSE Failed
        ELSE IF ~skp.ok THEN Failed
        ELSE IF skp.stop THEN Left
        ELSE EntryFrom(entry_bytes, skp.offset, key, value)

\* The request after an entry of the options map with this key and value
WithEntry(request, key, value) ==
    LET options == Get(request, "options", <<>>)
        r1 == SetKey(request, "options", SetKey(options, key, value))
    IN  IF key = K_newPath THEN
            (IF "newPath" \in DOMAIN r1 THEN r1 ELSE SetKey(r1, "newPath", value))
        ELSE IF key \in {K_targetPath, K_destinationPath} /\ "newPath" \notin DOMAIN r1
            THEN SetKey(r1, "newPath", value)
        ELSE r1

\* The keys of the string fields and of the integer fields of UnifiedRequest
StringField(n) ==
    CASE n = 2 -> "path"  [] n = 3 -> "name"  [] n = 5 -> "newName"
      [] n = 10 -> "chunkHash"  [] n = 11 -> "clientId"  [] n = 12 -> "version"
      [] n = 14 -> "filename"  [] n = 16 -> "checksum"  [] n = 18 -> "preferredFormat"

IntField(n) ==
    CASE n = 8 -> "chunkIndex"  [] n = 9 -> "totalChunks"
      [] n = 15 -> "fileSize"  [] n = 17 -> "chunkSize"

\* decode_unified_request: the loop over the fields; a field that fails to decode
\* ends the loop and leaves the request as it was before the field
RECURSIVE RequestFrom(_, _, _)
RequestFrom(data, offset, request) ==
    LET fld == decode_field(data, offset)
        n == fld.field_number
        var == decode_varint(data, fld.offset)
        str == decode_string(data, fld.offset)
        byt == decode_bytes(data, fld.offset)
        Entry(ent) ==
            IF ~ent.ok THEN request
            ELSE RequestFrom(data, byt.offset,
                             IF ent.key.set /\ ent.value.set
                             THEN WithEntry(request, ent.key.v, ent.value.v)
                             ELSE request)
        skp == SkipField(data, fld.wire_type, fld.offset)
    IN  IF offset >= Len(data) THEN request
        ELSE IF ~fld.ok THEN request
        ELSE IF n = 1 THEN
            IF var.ok
            THEN RequestFrom(data, var.offset,
                             SetKey(request, "operation", operation_map(var.value)))
            ELSE request
        ELSE IF n \in {2, 3, 5, 10, 11, 12, 14, 16, 18} THEN
            IF str.ok
            THEN RequestFrom(data, str.offset, SetKey(request, StringField(n), str.value))
            ELSE request
        ELSE IF n = 4 THEN
            IF byt.ok THEN RequestFrom(data, byt.offset, SetKey(request, "data", byt.value))
            ELSE request
        ELSE IF n = 6 THEN
            IF fld.wire_type # 2 \/ ~byt.ok THEN request
            ELSE Entry(EntryFrom(byt.value, 0, None, None))
        ELSE IF n = 7 THEN
            IF var.ok
            THEN RequestFrom(data, var.offset, SetKey(request, "isChunk", var.value # 0))
            ELSE request
        ELSE IF n \in {8, 9, 15, 17} THEN
            IF var.ok
            THEN RequestFrom(data, var.offset, SetKey(request, IntField(n), var.value))
            ELSE request
        ELSE IF n = 13 THEN
            IF str.ok
            THEN RequestFrom(data, str.offset,
                             SetKey(request, "supportedFormats",
                                    Append(Get(request, "supportedFormats", <<>>),
                                           str.value)))
            ELSE request
        ELSE IF ~skp.ok \/ skp.stop THEN request
        ELSE RequestFrom(data, skp.offset, request)

decode_unified_request(data) == RequestFrom(data, 0, <<>>)

\* decode_protobuf_data: an empty request becomes the operation UNKNOWN
decode_protobuf_data(data) ==
    LET Decoded(request) ==
            IF DOMAIN request # {} THEN request ELSE [operation |-> "UNKNOWN"]
    IN  Decoded(decode_unified_request(data))

\* a varint of one byte, whatever the value
varint_low(value) == <<value % 128>>

\* _varint, _key and the field encoders; the values are not negative
RECURSIVE varint(_)
varint(value) ==
    IF value \div 128 # 0 THEN <<(value % 128) + 128>> \o varint(value \div 128)
    ELSE <<value % 128>>

key(field_number, wire_type) == varint(field_number * 8 + wire_type)

encode_bool(field_number, value) == key(field_number, 0) \o varint(IF value THEN 1 ELSE 0)

encode_string(field_number, value) ==
    LET data == Utf8Encode(value)
    IN  key(field_number, 2) \o varint(Len(data)) \o data

encode_int(field_number, value) == key(field_number, 0) \o varint(value)

encode_bytes(field_number, data) == key(field_number, 2) \o varint(Len(data)) \o data

\* len(_encode_bytes(field_number, data)) for data of n bytes
encode_bytes_length(field_number, n) == Len(key(field_number, 2)) + Len(varint(n)) + n

encode_message(field_number, message_bytes) ==
    key(field_number, 2) \o varint(Len(message_bytes)) \o message_bytes

\* 'directory' and 'file'
TypeText(type) ==
    IF type = "directory" THEN <<100, 105, 114, 101, 99, 116, 111, 114, 121>>
    ELSE <<102, 105, 108, 101>>

\* _encode_file_info, of the name, the type and the size
encode_file_info(fi) ==
    (IF fi.name # <<>> THEN encode_string(1, fi.name) ELSE <<>>)
    \o encode_string(3, TypeText(fi.type))
    \o encode_int(4, fi.size)

RECURSIVE EncodeFiles(_)
EncodeFiles(files) ==
    IF files = <<>> THEN <<>>
    ELSE encode_message(3, encode_file_info(Head(files))) \o EncodeFiles(Tail(files))

\* encode_unified_response, of a response's success, message, files, data,
\* processTimeMs, fileSize and timestamp.  The other fields of a response,
\* which the session handlers, handle_upload_file and handle_connect set, are
\* left out.
encode_unified_response(resp) ==
    encode_bool(1, resp.success)
    \o (IF resp.message # <<>> THEN encode_string(2, resp.message) ELSE <<>>)
    \o EncodeFiles(resp.files)
    \o (IF resp.data.set THEN encode_bytes(4, resp.data.v) ELSE <<>>)
    \o (IF resp.processTimeMs.kind = "int" THEN encode_int(9, resp.processTimeMs.int)
        ELSE <<>>)
    \o (IF resp.fileSize.kind = "int" THEN encode_int(10, resp.fileSize.int) ELSE <<>>)
    \o (IF resp.timestamp.kind = "int" THEN encode_int(16, resp.timestamp.int) ELSE <<>>)

\* str.encode('utf-8') raises for a string that holds a surrogate code point
Encodable(str) == \A i \in 1..Len(str) : str[i] < 55296 \/ str[i] > 57343

\* encode_unified_response returns, for this response
Encodes(resp) ==
    /\ Encodable(resp.message)
    /\ \A i \in 1..Len(resp.files) : Encodable(resp.files[i].name)

\* 'pong'
M_pong == <<112, 111, 110, 103>>

\* the message of the pump for a format tag that is not 0x02
M_protobuf_only ==
    <<20165, 25903, 25345, 80, 114, 111, 116, 111, 98, 117, 102, 26684, 24335, 32,
      40, 48, 120, 48, 50, 41>>

\* Every other message is some text that is not empty; "m" stands for it
M_text == <<109>>

\* int(time.time() * 1000), and the milliseconds a request takes
TIMESTAMP == 1
PROCESS_TIME == 0

\* The response dict of an outcome.  The content of a file whose content is not
\* followed is not in it.
Response(o) ==
    [success |-> o.success,
     message |-> IF o.kind = "pong" THEN M_pong ELSE M_text,
     files |-> o.reply.files,
     data |-> IF o.op = "DOWNLOAD_FILE" /\ o.success THEN Some(o.reply.data) ELSE None,
     fileSize |-> IF o.op \in {"FILE_INFO", "DOWNLOAD_FILE"} /\ o.success
                  THEN PyInt(o.reply.fileSize) ELSE PyNone,
     processTimeMs |-> IF o.timed THEN PyInt(PROCESS_TIME) ELSE PyNone,
     timestamp |-> IF o.stamped THEN PyInt(TIMESTAMP) ELSE PyNone]

\* The response of handle_frame_protocol to a format tag that is not 0x02
error_response ==
    [success |-> FALSE, message |-> M_protobuf_only, files |-> <<>>, data |-> None,
     fileSize |-> PyNone, processTimeMs |-> PyNone, timestamp |-> PyInt(TIMESTAMP)]

(***************************************************************************)
(* The dispatch of a decoded request                                       *)
(***************************************************************************)
CMD_CONNECT == 3

command_map(command) ==
    CASE command = 3 -> "CONNECT"
      [] command = 4 -> "DISCONNECT"
      [] command = 1 -> "ping"
      [] command = 16 -> "list_files"
      [] command = 17 -> "file_info"
      [] command = 33 -> "download_file"
      [] command = 32 -> "upload_file"
      [] command = 19 -> "delete_file"
      [] command = 20 -> "rename_file"
      [] command = 18 -> "create_directory"
      [] command = 51 -> "download_req"
      [] OTHER -> ""

Answer(f, tab, o) == [fs |-> f, upload_sessions |-> tab, last |-> o]

WithTable(r, tab) == [fs |-> r.fs, upload_sessions |-> tab, last |-> r.last]

\* handle_ping, handle_connect, handle_disconnect: an answer and nothing else
handle_ping(f, tab) == Answer(f, tab, Outcome("PING", TRUE, "pong", {}, {}))
handle_connect(f, tab) ==
    Answer(f, tab, [Outcome("CONNECT", TRUE, "ok", {}, {}) EXCEPT !.stamped = TRUE])
handle_disconnect(f, tab) == Answer(f, tab, Outcome("DISCONNECT", TRUE, "ok", {}, {}))

\* process_request.  The operation is one of the names of operation_map and
\* command_map, of which "PING" and "ping" are the two that lower() makes
\* 'ping'.  The branch of DOWNLOAD_REQ is not part of the model: no request
\* sent here carries that operation.
\* The response of process_request has processTimeMs and timestamp added to it
\* before it is returned, on both ways out.
process_request(f, tab, request, now) ==
    LET operation == Get(request, "operation", "")
        Timed(r) == [r EXCEPT !.last.timed = TRUE, !.last.stamped = TRUE]
    IN  Timed(
        IF operation \in {"PING", "ping"} THEN handle_ping(f, tab)
        ELSE IF operation \in {"LIST_FILES", "list_files"}
            THEN WithTable(handle_list_files(f, request), tab)
        ELSE IF operation \in {"FILE_INFO", "file_info"}
            THEN WithTable(handle_file_info(f, request), tab)
        ELSE IF operation \in {"DOWNLOAD_FILE", "download_file"}
            THEN WithTable(handle_download_file(f, request), tab)
        ELSE IF operation \in {"UPLOAD_FILE", "upload_file"}
            THEN WithTable(handle_upload_file(f, request), tab)
        ELSE IF operation \in {"DELETE_FILE", "delete_file"}
            THEN WithTable(handle_delete_file(f, request), tab)
        ELSE IF operation \in {"RENAME_FILE", "rename_file"}
            THEN WithTable(handle_rename_file(f, request), tab)
        ELSE IF operation \in {"CREATE_DIR", "create_directory"}
            THEN WithTable(handle_create_directory(f, request), tab)
        ELSE IF operation = "UPLOAD_REQ" THEN handle_upload_req(f, tab, request, now)
        ELSE IF operation = "UPLOAD_DATA" THEN handle_upload_data(f, tab, request)
        ELSE IF operation = "UPLOAD_END" THEN handle_upload_end(f, tab, request)
        ELSE IF operation = "DISCONNECT" THEN handle_disconnect(f, tab)
        ELSE Answer(f, tab, Outcome("UNSUPPORTED", FALSE, "unsupported-operation", {}, {})))

\* process_frame_request: the frame's command names the operation only when the
\* decoded request names none
process_frame_request(f, tab, command, request, now) ==
    LET named == IF "operation" \in DOMAIN request THEN request
                 ELSE SetKey(request, "operation", command_map(command))
    IN  IF command = CMD_CONNECT THEN handle_connect(f, tab)
        ELSE process_request(f, tab, named, now)

(***************************************************************************)
(* The state after construction and seeding: the root /r with a file f and *)
(* a directory d, and beside the root a directory /r2 with a file s.       *)
(***************************************************************************)
InitFs ==
    [q \in {<<N_r>>, <<N_r, N_f>>, <<N_r, N_d>>, <<N_r2>>, <<N_r2, N_s>>} |->
        IF q \in {<<N_r, N_f>>, <<N_r2, N_s>>} THEN FileEntry(<<65>>) ELSE DirEntry]

NoRequest == Outcome("none", TRUE, "ok", {}, {})

NoProbe == [op |-> "none", given |-> <<>>, got |-> <<>>]

InitWith(f) ==
    /\ fs = f
    /\ upload_sessions = <<>>
    /\ last = NoRequest
    /\ nreq = 0
    /\ hist = <<>>
    /\ conn = "open"
    /\ wire = <<>>
    /\ buffer = <<>>
    /\ sent = <<>>
    /\ frames = <<>>
    /\ answered = <<>>
    /\ dispatched = <<>>
    /\ reads = [several |-> FALSE, across |-> FALSE]
    /\ download_sessions = <<>>
    /\ workers = [c \in Clients |-> NewWorker]
    /\ asked = <<>>
    /\ probe = NoProbe
    /\ flood = 0

Init == InitWith(InitFs)

(***************************************************************************)
(* The upload requests, with the history the upload claims speak of.       *)
(*                                                                         *)
(* hist[sid], for each session in the table, records what the server does  *)
(* not keep: data[i], the data of the last UPLOAD_DATA for index i; first  *)
(* [i], the length of the data of the first one; fileSize, chunkSize and   *)
(* totalChunks as the UPLOAD_REQ declared them; and clean: every           *)
(* UPLOAD_DATA of the session so far carried an index below the session's  *)
(* totalChunks with data of the chunk's length, min(chunkSize, fileSize -  *)
(* index * chunkSize), and no other session changed the session's file;   *)
(* born: the count of requests handled before the UPLOAD_REQ that created  *)
(* the session; again: that UPLOAD_REQ found a session under the id.       *)
(***************************************************************************)
Ids(tab) == {tab[i].id : i \in 1..Len(tab)}

NewHistory(req) ==
    [data |-> <<>>, first |-> <<>>, clean |-> TRUE,
     fileSize |-> Get(req, "fileSize", 0), chunkSize |-> Get(req, "chunkSize", 65536),
     totalChunks |-> Get(req, "totalChunks", 0), born |-> nreq, again |-> FALSE]

ChunkLen(s, i) == Max(0, Min(s.chunk_size, s.file_size - i * s.chunk_size))

Delivered(h, s, i, d) ==
    [h EXCEPT
        !.data = [j \in DOMAIN h.data \cup {i} |-> IF j = i THEN d ELSE h.data[j]],
        !.first = [j \in DOMAIN h.first \cup {i} |->
                      IF j \in DOMAIN h.first THEN h.first[j] ELSE Len(d)],
        !.clean = @ /\ i < s.total_chunks /\ Len(d) = ChunkLen(s, i)]

\* The history after a request that acted on session sid (fresh: sid was created
\* by it; i, d: the chunk it delivered, when delivered holds).
UploadHistory(h0, tab0, f0, r, req, sid, fresh, delivered, i, d) ==
    [x \in Ids(r.upload_sessions) |->
        IF x = sid /\ fresh
        THEN [NewHistory(req) EXCEPT !.again = HasSession(tab0, sid)]
        ELSE IF x = sid /\ delivered THEN Delivered(h0[x], SessionOf(tab0, x), i, d)
        ELSE IF x = sid THEN h0[x]
        ELSE [h0[x] EXCEPT !.clean =
                 @ /\ LET p == SessionOf(tab0, x).file_path
                      IN  p \in DOMAIN r.fs /\ p \in DOMAIN f0 /\ r.fs[p] = f0[p]]]

\* The history after request req was answered by r in the state of history h0,
\* session table tab0 and file system f0
HistoryAfter(h0, tab0, f0, r, req) ==
    IF r.last.op = "UPLOAD_REQ"
    THEN UploadHistory(h0, tab0, f0, r, req, r.last.sid, r.last.success, FALSE, 0, <<>>)
    ELSE IF r.last.op = "UPLOAD_DATA"
    THEN UploadHistory(h0, tab0, f0, r, req, r.last.sid, FALSE, r.last.success,
                       r.last.index, Get(req, "data", <<>>))
    ELSE UploadHistory(h0, tab0, f0, r, req, <<>>, FALSE, FALSE, 0, <<>>)

ApplyUp(r, req) ==
    /\ nreq' = nreq + 1
    /\ fs' = r.fs
    /\ upload_sessions' = r.upload_sessions
    /\ last' = r.last
    /\ hist' = HistoryAfter(hist, upload_sessions, fs, r, req)
    /\ UNCHANGED <<pumpVars, connVars, probeVars>>

UploadReq(req, now) ==
    LET r == handle_upload_req(fs, upload_sessions, req, now)
    IN  ApplyUp(r, req)

UploadData(req) ==
    LET r == handle_upload_data(fs, upload_sessions, req)
    IN  ApplyUp(r, req)

UploadEnd(req) ==
    LET r == handle_upload_end(fs, upload_sessions, req)
    IN  ApplyUp(r, req)

(***************************************************************************)
(* The file operations, on requests a client can send                      *)
(***************************************************************************)
\* Virtual paths: "", "/", "/d", "/f", "/../r2/s", "/../o"
FsPaths ==
    {<<>>, <<Slash>>} \cup
    {JoinParts(p) : p \in {<<N_d>>, <<N_f>>, <<DotDot, N_r2, N_s>>, <<DotDot, N_o>>}}

\* Names: "n", "../o"
FsNames == {N_n, DotDot \o <<Slash>> \o N_o}

\* "QQ==", the base64 of "A"
B64_A == <<81, 81, 61, 61>>

SID_1 == <<49>>

ApplyFs(r) ==
    /\ nreq < MaxFsRequests
    /\ nreq' = nreq + 1
    /\ fs' = r.fs
    /\ last' = r.last
    /\ hist' = HistoryAfter(hist, upload_sessions, fs, WithTable(r, upload_sessions), <<>>)
    /\ UNCHANGED <<upload_sessions, pumpVars, connVars, probeVars>>

ListFiles == \E p \in FsPaths : ApplyFs(handle_list_files(fs, [path |-> p]))

FileInfo == \E p \in FsPaths : ApplyFs(handle_file_info(fs, [path |-> p]))

DownloadFile == \E p \in FsPaths : ApplyFs(handle_download_file(fs, [path |-> p]))

DeleteFile == \E p \in FsPaths : ApplyFs(handle_delete_file(fs, [path |-> p]))

RenameFile ==
    \E p \in FsPaths :
        \/ \E n \in FsNames : ApplyFs(handle_rename_file(fs, [path |-> p, newName |-> n]))
        \/ \E q \in FsPaths \ {<<>>} :
              ApplyFs(handle_rename_file(fs,
                  [path |-> p, newPath |-> q, options |-> [k \in {K_newPath} |-> q]]))

CreateDir ==
    \E p \in FsPaths \ {<<>>}, n \in FsNames :
        ApplyFs(handle_create_directory(fs, [path |-> p, name |-> n]))

UploadFile ==
    \E p \in FsPaths \ {<<>>}, n \in FsNames :
        ApplyFs(handle_upload_file(fs, [path |-> p, filename |-> n, data |-> B64_A]))

FsUploadReq ==
    \E p \in FsPaths \ {<<>>}, n \in FsNames :
        /\ nreq < MaxFsRequests
        /\ UploadReq([path |-> p, name |-> n, fileSize |-> 1, chunkSize |-> 1,
                      totalChunks |-> 1, options |-> [k \in {K_sessionId} |-> SID_1]],
                     <<49>>)

NextFs ==
    \/ ListFiles
    \/ FileInfo
    \/ DownloadFile
    \/ DeleteFile
    \/ RenameFile
    \/ CreateDir
    \/ UploadFile
    \/ FsUploadReq

SpecFs == Init /\ [][NextFs]_vars

(***************************************************************************)
(* The sandbox claims                                                      *)
(***************************************************************************)
\* Every path outside the root is in g what it is in f.
OutsideSame(f, g) ==
    /\ {q \in DOMAIN f : ~UnderRoot(q)} = {q \in DOMAIN g : ~UnderRoot(q)}
    /\ \A q \in DOMAIN f : ~UnderRoot(q) => g[q] = f[q]

\* C1: every path get_safe_path returns to LIST_FILES, FILE_INFO, DELETE_FILE,
\* DOWNLOAD_FILE or RENAME_FILE is the root or below it by path components
\* (otherwise the call fails as an invalid path and the answer is success=false).
C1_SafePathUnderRoot ==
    last.op \in {"LIST_FILES", "FILE_INFO", "DELETE_FILE", "DOWNLOAD_FILE", "RENAME_FILE"}
        => \A t \in last.safe : UnderRoot(t)

\* C2: the path UPLOAD_FILE, CREATE_DIR or UPLOAD_REQ creates or writes lies under
\* the root, and such a request leaves everything outside the root as it was.
C2_CreatedUnderRoot ==
    [][last'.op \in {"UPLOAD_FILE", "CREATE_DIR", "UPLOAD_REQ"}
           => /\ \A t \in last'.target : UnderRoot(t)
              /\ OutsideSame(fs, fs')]_vars

\* C3: a RENAME_FILE whose target lies outside the root answers success=false and
\* changes nothing; no rename moves an entry from inside the root to outside it.
C3_RenameStaysInside ==
    [][last'.op = "RENAME_FILE"
           => /\ \A t \in last'.target : UnderRoot(t)
              /\ (\E t \in last'.target : ~UnderRoot(t)) => (~last'.success /\ fs' = fs)
              /\ OutsideSame(fs, fs') \/ \E t \in last'.safe : ~UnderRoot(t)]_vars

(***************************************************************************)
(* The chunked upload, on requests a client can send: the declared sizes   *)
(* and chunk sizes of UpShapes, chunk indices in and out of range,         *)
(* data that is or is not the chunk's length, with the client's sessionId  *)
(* or without one.                                                         *)
(***************************************************************************)
MaxUploadRequests == 4

Ceil(a, b) == (a + b - 1) \div b

\* <<fileSize, chunkSize>>: nothing to send, less than a chunk, two chunks, one
UpShapes == {<<0, 1>>, <<1, 2>>, <<2, 1>>, <<2, 2>>}
UpIndices == {0, 1}
UpData == {<<>>, <<1>>, <<2>>, <<1, 2>>}

\* options.sessionId "1", or no options at all
UpOptions == {<<>>, [k \in {K_sessionId} |-> SID_1]}

WithOptions(req, o) ==
    IF o = <<>> THEN req
    ELSE [k \in DOMAIN req \cup {"options"} |-> IF k = "options" THEN o ELSE req[k]]

UpUploadReq ==
    \E shape \in UpShapes, o \in UpOptions :
        \E n \in {Ceil(shape[1], shape[2]), Max(1, Ceil(shape[1], shape[2]))} :
            /\ nreq < MaxUploadRequests
            /\ UploadReq(WithOptions([path |-> <<Slash>>, name |-> N_n,
                                      fileSize |-> shape[1], chunkSize |-> shape[2],
                                      totalChunks |-> n], o), <<49>>)

UpUploadData ==
    \E i \in UpIndices, d \in UpData, o \in UpOptions :
        /\ nreq < MaxUploadRequests
        /\ UploadData(WithOptions([chunkIndex |-> i, data |-> d], o))

UpUploadEnd ==
    \E o \in UpOptions :
        /\ nreq < MaxUploadRequests
        /\ UploadEnd(WithOptions([operation |-> "UPLOAD_END"], o))

NextUpload ==
    \/ UpUploadReq
    \/ UpUploadData
    \/ UpUploadEnd

SpecUpload == Init /\ [][NextUpload]_vars

(***************************************************************************)
(* One upload session, under the client's id "1", beside a client that     *)
(* deletes the uploaded file: a session whose UPLOAD_END failed on the     *)
(* size has no handle, and its next UPLOAD_DATA opens the file again.      *)
(* A session's handle is modelled by its file_path, which is exact as long *)
(* as no other session has a handle on a file that was removed; with one   *)
(* session id there is none.                                               *)
(***************************************************************************)
MaxRetryRequests == 5

RetryData == {<<1>>, <<1, 2>>}

RetryOptions == [k \in {K_sessionId} |-> SID_1]

RetryUploadReq ==
    \E size \in {1, 2} :
        /\ nreq < MaxRetryRequests
        /\ UploadReq([path |-> <<Slash>>, name |-> N_n, fileSize |-> size,
                      chunkSize |-> 1, totalChunks |-> size, options |-> RetryOptions],
                     <<49>>)

RetryUploadData ==
    \E i \in UpIndices, d \in RetryData :
        /\ nreq < MaxRetryRequests
        /\ UploadData([chunkIndex |-> i, data |-> d, options |-> RetryOptions])

RetryUploadEnd ==
    /\ nreq < MaxRetryRequests
    /\ UploadEnd([options |-> RetryOptions])

\* DELETE_FILE of the uploaded file /n
RetryDeleteFile ==
    LET req == [path |-> <<Slash>> \o N_n]
        d == handle_delete_file(fs, req)
        r == [fs |-> d.fs, upload_sessions |-> upload_sessions, last |-> d.last]
    IN  /\ nreq < MaxRetryRequests
        /\ ApplyUp(r, req)

NextRetry ==
    \/ RetryUploadReq
    \/ RetryUploadData
    \/ RetryUploadEnd
    \/ RetryDeleteFile

SpecRetry == Init /\ [][NextRetry]_vars

(***************************************************************************)
(* Downloads: DOWNLOAD_REQ requests given to handle_download_req one after *)
(* the other.  Beside the seeded files the root holds an empty file e and  *)
(* a file g of BigSize bytes, more than two chunks of the largest size.    *)
(***************************************************************************)
MaxDownloadRequests == 3

BigSize == 8388609

N_e == <<101>>
N_g == <<103>>

DownloadFs ==
    [q \in DOMAIN InitFs \cup {<<N_r, N_e>>, <<N_r, N_g>>} |->
        IF q = <<N_r, N_e>> THEN FileEntry(<<>>)
        ELSE IF q = <<N_r, N_g>> THEN SizedFile(BigSize)
        ELSE InitFs[q]]

InitDownload == InitWith(DownloadFs)

\* '/f', '/g', '/e'; the directory '/d' and '/o', which does not exist
DlPaths == {<<47>> \o N_f, <<47>> \o N_g, <<47>> \o N_e}

\* the clock's milliseconds at a start
DlClock == {<<49>>}

\* the ids start gives here, and 'x', which it never gives and which names no
\* file
DlIds == {S_dl \o now \o <<95>> \o n : now \in DlClock, n \in {N_f, N_g, N_e}}
            \cup {<<120>>}

\* a chunkSize: none; 0 in the request's field; '0', 'abc' and '99999999' in
\* the options; 100000 in the request's field
ChunkSizes ==
    {PyNone, PyInt(0), PyStr(<<48>>), PyStr(<<97, 98, 99>>),
     PyStr(<<57, 57, 57, 57, 57, 57, 57, 57>>), PyInt(100000)}

\* a chunkIndex: none; 0, 1 and 2 in the request's field; '0' in the options
ChunkIndices == {PyNone, PyInt(0), PyInt(1), PyInt(2), PyStr(<<48>>)}

\* The request with a value v: a str goes to the options, an int
\* to the request's own field, as the decoder gives them
WithValue(req, field, option, v) ==
    CASE v.kind = "none" -> req
      [] v.kind = "int" -> SetKey(req, field, v.int)
      [] v.kind = "str" -> SetKey(req, "options", SetKey(req.options, option, v.str))

DlRequest(p, action) == [path |-> p, options |-> [k \in {K_action} |-> action]]

DlSessionRequest(p, action, sid) ==
    WithValue(DlRequest(p, action), "sessionId", K_sessionId, sid)

ApplyDl(req, now) ==
    \E r \in {handle_download_req(fs, download_sessions, req, now)} :
        /\ nreq < MaxDownloadRequests
        /\ nreq' = nreq + 1
        /\ fs' = r.fs
        /\ download_sessions' = r.download_sessions
        /\ last' = r.last
        /\ asked' = req
        /\ UNCHANGED <<upload_sessions, hist, pumpVars, workers, probeVars>>

\* the path a client names with a session id: the file the id was given for
DlPathOf(sid) == <<47, sid[Len(sid)]>>

DlStart ==
    \E p \in DlPaths, size \in ChunkSizes, now \in DlClock :
        ApplyDl(WithValue(DlRequest(p, A_start), "chunkSize", K_chunkSize, size), now)

DlChunk ==
    \E sid \in DlIds, i \in ChunkIndices, now \in DlClock :
        ApplyDl(WithValue(DlSessionRequest(DlPathOf(sid), A_chunk, PyStr(sid)),
                          "chunkIndex", K_chunkIndex, i), now)

DlFinish ==
    \E sid \in DlIds, now \in DlClock :
        ApplyDl(DlSessionRequest(DlPathOf(sid), A_finish, PyStr(sid)), now)

DlAbort ==
    \E sid \in {PyStr(id) : id \in DlIds} \cup {PyNone}, now \in DlClock :
        ApplyDl(DlSessionRequest(IF sid = PyNone THEN <<47>> \o N_f ELSE DlPathOf(sid.str),
                                 A_abort, sid), now)

\* requests that name no file, a directory, a file that does not exist, no
\* action, the action 'x', and a chunk of a session for another file than its own
DlOther ==
    \E req \in {[options |-> [k \in {K_action} |-> A_start]],
                DlRequest(<<47>> \o N_d, A_start),
                DlRequest(<<47>> \o N_o, A_start),
                [path |-> <<47>> \o N_f, options |-> <<>>],
                DlRequest(<<47>> \o N_f, <<120>>),
                DlSessionRequest(<<47>> \o N_f, A_chunk,
                                 PyStr(S_dl \o <<49, 95>> \o N_g))}, now \in DlClock :
        ApplyDl(req, now)

NextDownload ==
    \/ DlStart
    \/ DlChunk
    \/ DlFinish
    \/ DlAbort
    \/ DlOther

SpecDownload == InitDownload /\ [][NextDownload]_vars

(***************************************************************************)
(* Downloads of a file in one piece and in chunks: DOWNLOAD_FILE beside    *)
(* the start and the chunks of DOWNLOAD_REQ, on the files of DownloadFs.   *)
(***************************************************************************)
\* DOWNLOAD_FILE of /f, /g or /e
DlWhole ==
    \E p \in DlPaths :
        LET req == [path |-> p]
            r == handle_download_file(fs, req)
        IN  /\ nreq < MaxDownloadRequests
            /\ nreq' = nreq + 1
            /\ fs' = r.fs
            /\ last' = r.last
            /\ asked' = req
            /\ UNCHANGED <<upload_sessions, hist, pumpVars, download_sessions, workers,
                           probeVars>>

NextPayload ==
    \/ DlStart
    \/ DlChunk
    \/ DlWhole

SpecPayload == InitDownload /\ [][NextPayload]_vars

(***************************************************************************)
(* Connections that end: two clients, each with its worker thread.  While  *)
(* a worker serves, its client's requests are handled, each in one step;   *)
(* when recv returns b'' or raises, the worker runs the finally block of   *)
(* handle_client one iteration at a time, so that the steps of the other   *)
(* worker come between.                                                    *)
(***************************************************************************)
MaxConnRequests == 3

\* the clock's milliseconds at the requests
ConnClock == {<<49>>, <<50>>}

ApplyConn(c, r, up, made) ==
    /\ workers[c].pc = "serving"
    /\ nreq < MaxConnRequests
    /\ nreq' = nreq + 1
    /\ fs' = r.fs
    /\ upload_sessions' = up
    /\ download_sessions' = r.download_sessions
    /\ last' = r.last
    /\ workers' = [d \in Clients |->
                      [workers[d] EXCEPT !.uploads = IF d = c THEN @ \cup made
                                                     ELSE @ \ made]]
    /\ UNCHANGED <<hist, pumpVars, asked, probeVars>>

\* DOWNLOAD_REQ start of the file f
ConnStart(c) ==
    \E now \in ConnClock :
    \E r \in {handle_download_req(fs, download_sessions,
                                  SetKey(DlRequest(<<47>> \o N_f, A_start),
                                         "__client_id", c), now)} :
        ApplyConn(c, r, upload_sessions, {})

\* DOWNLOAD_REQ chunk of a session of the table, the next chunk
ConnChunk(c) ==
    \E k \in 1..Len(download_sessions), now \in ConnClock :
    \E r \in {handle_download_req(fs, download_sessions,
                                  SetKey(DlSessionRequest(<<47>> \o N_f, A_chunk,
                                                          PyStr(download_sessions[k].id)),
                                         "__client_id", c), now)} :
        ApplyConn(c, r, upload_sessions, {})

\* UPLOAD_REQ of the file n in the root; the session's id is the server's
ConnUpload(c) ==
    \E now \in ConnClock :
    \E r \in {handle_upload_req(fs, upload_sessions,
                                [path |-> <<Slash>>, name |-> N_n, fileSize |-> 1,
                                 chunkSize |-> 1, totalChunks |-> 1,
                                 __client_id |-> c], now)} :
        ApplyConn(c, [fs |-> r.fs, download_sessions |-> download_sessions,
                      last |-> r.last],
                  r.upload_sessions, IF r.last.success THEN {r.last.sid} ELSE {})

\* The loop of handle_client ends: the socket is closed, and the iteration of
\* self.download_sessions.items() begins
ConnEnd(c) ==
    /\ workers[c].pc = "serving"
    /\ workers' = [workers EXCEPT ![c].pc = "sweeping",
                                  ![c].size = Len(download_sessions),
                                  ![c].seen = {}, ![c].stale = <<>>]
    /\ UNCHANGED <<fs, upload_sessions, download_sessions, last, nreq, hist, pumpVars,
                   asked, probeVars>>

\* next() of the iterator: RuntimeError when the dict's size has changed; else
\* the first item not yet given, which the comprehension keeps when its
\* clientId is the client's; else the end of the iteration
SweepNext(c) ==
    LET w == workers[c]
        unseen == {k \in 1..Len(download_sessions) : download_sessions[k].id \notin w.seen}
        item == download_sessions[CHOOSE k \in unseen : \A j \in unseen : k <= j]
    IN  /\ w.pc = "sweeping"
        /\ workers' =
            [workers EXCEPT ![c] =
                IF Len(download_sessions) # w.size THEN [w EXCEPT !.pc = "raised"]
                ELSE IF unseen # {}
                    THEN [w EXCEPT !.seen = @ \cup {item.id},
                                   !.stale = IF item.s.clientId = c
                                             THEN Append(@, item.id) ELSE @]
                ELSE [w EXCEPT !.pc = IF w.stale = <<>> THEN "done" ELSE "popping"]]
        /\ UNCHANGED <<fs, upload_sessions, download_sessions, last, nreq, hist,
                       pumpVars, asked, probeVars>>

\* One turn of "for sid in stale_sessions": the session is popped; it has no
\* 'file', and the KeyError of session['file'].close() is caught
SweepPop(c) ==
    LET w == workers[c]
    IN  /\ w.pc = "popping"
        /\ download_sessions' = PopStale(download_sessions, <<Head(w.stale)>>)
        /\ workers' = [workers EXCEPT ![c].stale = Tail(w.stale),
                                      ![c].pc = IF Len(w.stale) = 1 THEN "done"
                                                ELSE "popping"]
        /\ UNCHANGED <<fs, upload_sessions, last, nreq, hist, pumpVars, asked, probeVars>>

NextConn ==
    \/ \E c \in Clients : ConnStart(c)
    \/ \E c \in Clients : ConnChunk(c)
    \/ \E c \in Clients : ConnUpload(c)
    \/ \E c \in Clients : ConnEnd(c)
    \/ \E c \in Clients : SweepNext(c)
    \/ \E c \in Clients : SweepPop(c)

SpecConn == Init /\ [][NextConn]_vars

(***************************************************************************)
(* The connection pump: one client on one connection.  The client sends    *)
(* frames of FrameMenu, up to MaxFrames of them; recv returns any non-     *)
(* empty prefix of what is in flight, up to 64 KiB, so a read may end      *)
(* inside a frame or after several.                                        *)
(***************************************************************************)
MaxFrames == 2

RECV_SIZE == 65536

\* The counts of bytes a recv returns here, when that many are in flight: one
\* byte, a part of a header, a part of a frame, one frame and a part of the next,
\* and all there is
RecvSizes == {1, 5, 13, 30, RECV_SIZE}

\* host:port of the client, and the clock's milliseconds
CLIENT_ID == <<99>>
NOW == <<49>>

\* UnifiedRequest payloads: operation PING; CREATE_DIR, path "/", name "n";
\* DELETE_FILE, path "/f"
P_ping == <<8, 1>>
P_create_dir == <<8, 18, 18, 1, 47, 26, 1, 110>>

\* The frames a client sends: [command, format, sequence, data].  Format 1 is the
\* JSON tag, which the server does not take; the last frame has no payload.
FrameMenu ==
    {[command |-> 1, format |-> 2, sequence |-> 1, data |-> P_ping],
     [command |-> 18, format |-> 2, sequence |-> 513, data |-> P_create_dir],
     [command |-> 18, format |-> 1, sequence |-> 65535, data |-> P_create_dir],
     [command |-> 16, format |-> 2, sequence |-> 0, data |-> <<>>]}

\* The frame of the menu as the client writes it
FrameBytes == [f \in FrameMenu |-> BuildFrame(f.command, f.format, f.data, f.sequence)]

\* build_response_frame with another sequence number than the one it is given
build_response_frame_next(command, format_type, data, sequence) ==
    BuildFrame(command, format_type, encode_unified_response(data),
               (sequence + 1) % 65536)

\* build_response_frame, of a response dict
build_response_frame(command, format_type, data, sequence) ==
    BuildFrame(command, format_type, encode_unified_response(data), sequence)

\* One turn of the loop of handle_frame_protocol on the state st of the server
\* and the connection, with the frame that parse_frame returned: the frame is
\* taken out of the buffer and answered, and with format tag 0x02 it is decoded
\* and dispatched first.  When the response cannot be encoded,
\* build_response_frame raises after the request was handled, and nothing is
\* sent.
AnswerFrame(st, frame, consumed) ==
    LET rest == Slice(st.buffer, consumed, Len(st.buffer))
        error_frame ==
            build_response_frame(frame.command, FORMAT_PROTOBUF, error_response,
                                 frame.sequence)
        Responded(request_data, r) ==
            [buffer |-> rest, fs |-> r.fs, upload_sessions |-> r.upload_sessions,
             last |-> r.last,
             hist |-> HistoryAfter(st.hist, st.upload_sessions, st.fs, r, request_data),
             sent |-> IF Encodes(Response(r.last))
                      THEN Append(st.sent,
                                  build_response_frame(frame.command, FORMAT_PROTOBUF,
                                                       Response(r.last), frame.sequence))
                      ELSE st.sent,
             answered |-> IF Encodes(Response(r.last)) THEN Append(st.answered, frame)
                          ELSE st.answered,
             dispatched |-> Append(st.dispatched, request_data),
             raised |-> ~Encodes(Response(r.last))]
        Dispatch(request_data) ==
            Responded(request_data,
                      process_frame_request(st.fs, st.upload_sessions, frame.command,
                                            request_data, NOW))
    IN  IF ~IsProtobuf(frame)
        THEN [st EXCEPT !.buffer = rest,
                        !.sent = Append(@, error_frame),
                        !.answered = Append(@, frame)]
        ELSE Dispatch(SetKey(decode_protobuf_data(frame.data), "__client_id", CLIENT_ID))

\* handle_frame_protocol with an if in the place of its while: one frame a call
handle_frame_protocol_once(st) ==
    LET frame_result == parse_frame(st.buffer)
    IN  IF ~frame_result.ok THEN st
        ELSE AnswerFrame(st, frame_result.frame, frame_result.consumed)

\* handle_frame_protocol: frames are parsed and answered one after the other
\* until parse_frame returns None, or build_response_frame raises
RECURSIVE handle_frame_protocol(_)
handle_frame_protocol(st) ==
    CHOOSE out \in
        {IF ~frame_result.ok \/ st.raised THEN st
         ELSE CHOOSE done \in
                  {handle_frame_protocol(next) :
                      next \in {AnswerFrame(st, frame_result.frame,
                                            frame_result.consumed)}} : TRUE :
            frame_result \in {parse_frame(st.buffer)}} : TRUE

\* The client writes one more frame to the socket
ClientSend ==
    \E f \in FrameMenu :
        /\ conn = "open"
        /\ Len(frames) < MaxFrames
        /\ frames' = Append(frames, f)
        /\ wire' = wire \o FrameBytes[f]
        /\ UNCHANGED <<fs, upload_sessions, last, nreq, hist, conn, buffer, sent,
                       answered, dispatched, reads, connVars, probeVars>>

\* The client closes the connection
ClientClose ==
    /\ conn = "open"
    /\ conn' = "eof"
    /\ UNCHANGED <<fs, upload_sessions, last, nreq, hist, wire, buffer, sent, frames,
                   answered, dispatched, reads, connVars, probeVars>>

\* One turn of handle_client's loop: recv returns n bytes, they are appended to
\* the buffer, and handle_frame_protocol runs on it.  An exception that leaves
\* handle_frame_protocol ends the loop: the finally block closes the socket and
\* pops the download sessions of this client.
RecvOf(sizes) ==
    /\ conn \in {"open", "eof"}
    /\ \E size \in sizes :
        \E n \in {Min(Len(wire), Min(size, RECV_SIZE))} :
        \E st \in {handle_frame_protocol(
                        [buffer |-> buffer \o SubSeq(wire, 1, n), fs |-> fs,
                         upload_sessions |-> upload_sessions, last |-> last,
                         hist |-> hist, sent |-> sent, answered |-> answered,
                         dispatched |-> dispatched, raised |-> FALSE])} :
            /\ n >= 1
            /\ wire' = SubSeq(wire, n + 1, Len(wire))
            /\ buffer' = st.buffer
            /\ fs' = st.fs
            /\ upload_sessions' = st.upload_sessions
            /\ last' = st.last
            /\ hist' = st.hist
            /\ sent' = st.sent
            /\ answered' = st.answered
            /\ dispatched' = st.dispatched
            /\ reads' = [several |-> reads.several
                                        \/ Len(st.answered) >= Len(answered) + 2,
                         across |-> reads.across
                                        \/ (buffer # <<>> /\ Len(st.answered) > Len(answered))]
            /\ conn' = IF st.raised THEN "closed" ELSE conn
            /\ download_sessions' =
                    IF st.raised
                    THEN PopStale(download_sessions,
                                  stale_sessions(download_sessions, CLIENT_ID))
                    ELSE download_sessions
            /\ UNCHANGED <<nreq, frames, workers, asked, probeVars>>

Recv == RecvOf(RecvSizes)

\* recv returns b'' once the client has closed and nothing is in flight: the loop
\* ends, and the finally block closes the socket and pops the download sessions
\* of this client.  No other thread runs in this specification, so the block is
\* one step.
RecvEof ==
    /\ conn = "eof"
    /\ wire = <<>>
    /\ conn' = "closed"
    /\ download_sessions' = PopStale(download_sessions,
                                     stale_sessions(download_sessions, CLIENT_ID))
    /\ UNCHANGED <<fs, upload_sessions, last, nreq, hist, wire, buffer, sent, frames,
                   answered, dispatched, reads, workers, asked, probeVars>>

NextPump ==
    \/ ClientSend
    \/ ClientClose
    \/ Recv
    \/ RecvEof

SpecPump == Init /\ [][NextPump]_vars

(***************************************************************************)
(* The pump with a client that also writes what is no frame: bytes without *)
(* a magic prefix, a frame whose trailer is wrong, and a frame that        *)
(* declares more than 4 MiB of payload.  frames keeps what was written: a  *)
(* frame of FrameMenu, or [noise, bytes].                                  *)
(***************************************************************************)
\* The frames of the menu the client writes here
NoiseFrames == {f \in FrameMenu : f.format = FORMAT_PROTOBUF /\ f.data # <<>>}

PingBytes == FrameBytes[CHOOSE f \in NoiseFrames : f.command = 1]

NoiseMenu ==
    {[noise |-> "garbage", bytes |-> <<1, 2>>],
     [noise |-> "trailer",
      bytes |-> SubSeq(PingBytes, 1, Len(PingBytes) - 2) \o <<0, 0>>],
     [noise |-> "length",
      bytes |-> SubSeq(PingBytes, 1, 2) \o PackU32(MAX_FRAME_DATA + 1)
                    \o SubSeq(PingBytes, 7, Len(PingBytes))]}

IsNoise(w) == "noise" \in DOMAIN w

\* The client writes a frame or noise to the socket
ClientWrite ==
    \E w \in NoiseFrames \cup NoiseMenu :
        /\ conn = "open"
        /\ Len(frames) < MaxFrames
        /\ frames' = Append(frames, w)
        /\ wire' = wire \o (IF IsNoise(w) THEN w.bytes ELSE FrameBytes[w])
        /\ UNCHANGED <<fs, upload_sessions, last, nreq, hist, conn, buffer, sent,
                       answered, dispatched, reads, connVars, probeVars>>

NextNoise ==
    \/ ClientWrite
    \/ ClientClose
    \/ Recv
    \/ RecvEof

SpecNoise == Init /\ [][NextNoise]_vars

(***************************************************************************)
(* The pump with a client that sends requests of every kind, each read     *)
(* whole: operations with and without a handler, requests that fail in     *)
(* their handler, payloads with a field that does not decode, and the file *)
(* requests.  The root holds a file f, a directory d with a file a and a   *)
(* directory B in it, and a file whose name is not UTF-8: os.listdir gives *)
(* the byte 0xFF of the name as the surrogate U+DCFF.                      *)
(***************************************************************************)
MaxDispatchFrames == 2

N_a == <<97>>
N_B == <<66>>
N_bad == <<98, 56575>>

DispatchFs ==
    [q \in {<<N_r>>, <<N_r, N_f>>, <<N_r, N_d>>, <<N_r, N_d, N_a>>, <<N_r, N_d, N_B>>,
            <<N_r, N_bad>>} |->
        IF q = <<N_r, N_f>> THEN FileEntry(<<65>>)
        ELSE IF q \in {<<N_r, N_d, N_a>>, <<N_r, N_bad>>} THEN FileEntry(<<65, 66>>)
        ELSE DirEntry]

\* UnifiedRequest payloads.  An operation and nothing else: PONG, DOWNLOAD_DATA,
\* DOWNLOAD_END, CONNECT, and 99, which is no value of the enum
D_op(operation_value) == encode_int(1, operation_value)

\* a path and no operation
D_path == encode_string(2, <<47>>)

\* DELETE_FILE of /x, which does not exist
D_delete_x == encode_int(1, 19) \o encode_string(2, <<47, 120>>)

\* DELETE_FILE of /f
D_delete_f == encode_int(1, 19) \o encode_string(2, <<47, 102>>)

\* DELETE_FILE of /f, and then a name whose length runs past the payload
D_delete_f_cut == encode_int(1, 19) \o encode_string(2, <<47, 102>>) \o <<26, 5, 97>>

\* DELETE_FILE, and then a path that is not UTF-8
D_delete_utf8 == encode_int(1, 19) \o <<18, 1, 255>>

\* an operation whose varint does not end
D_cut_varint == <<8, 128>>

\* LIST_FILES of / and of /d
D_list_root == encode_int(1, 16) \o encode_string(2, <<47>>)
D_list_d == encode_int(1, 16) \o encode_string(2, <<47, 100>>)

\* UPLOAD_FILE to /, filename 'n', with the data 'QUJD' and with the data 'A';
\* DOWNLOAD_FILE of /n
U_b64 == <<81, 85, 74, 68>>
U_one == <<65>>
D_upload(data) ==
    encode_int(1, 32) \o encode_string(2, <<47>>) \o encode_string(14, N_n)
    \o encode_bytes(4, data)
D_download_n == encode_int(1, 33) \o encode_string(2, <<47, 110>>)

\* UPLOAD_REQ to /, with the name of the file in filename, fileSize 1,
\* chunkSize 1 and totalChunks 1
D_upload_req ==
    encode_int(1, 48) \o encode_string(2, <<47>>) \o encode_string(14, N_n)
    \o encode_int(15, 1) \o encode_int(17, 1) \o encode_int(9, 1)

\* The frames the client sends: [command, format, sequence, data]
DispatchMenu ==
    {[command |-> 1, format |-> 2, sequence |-> 1, data |-> P_ping],
     [command |-> 2, format |-> 2, sequence |-> 2, data |-> D_op(2)],
     [command |-> 52, format |-> 2, sequence |-> 3, data |-> D_op(52)],
     [command |-> 53, format |-> 2, sequence |-> 4, data |-> D_op(53)],
     [command |-> 1, format |-> 2, sequence |-> 5, data |-> D_op(99)],
     [command |-> 48, format |-> 2, sequence |-> 6, data |-> D_path],
     [command |-> 48, format |-> 2, sequence |-> 7, data |-> <<>>],
     [command |-> 19, format |-> 2, sequence |-> 8, data |-> D_delete_x],
     [command |-> 3, format |-> 2, sequence |-> 9, data |-> D_op(3)],
     [command |-> 1, format |-> 1, sequence |-> 10, data |-> P_ping],
     [command |-> 19, format |-> 2, sequence |-> 11, data |-> D_delete_f_cut],
     [command |-> 19, format |-> 2, sequence |-> 12, data |-> D_delete_utf8],
     [command |-> 1, format |-> 2, sequence |-> 13, data |-> D_cut_varint],
     [command |-> 16, format |-> 2, sequence |-> 14, data |-> D_list_root],
     [command |-> 16, format |-> 2, sequence |-> 15, data |-> D_list_d],
     [command |-> 32, format |-> 2, sequence |-> 16, data |-> D_upload(U_b64)],
     [command |-> 32, format |-> 2, sequence |-> 17, data |-> D_upload(U_one)],
     [command |-> 33, format |-> 2, sequence |-> 18, data |-> D_download_n],
     [command |-> 48, format |-> 2, sequence |-> 19, data |-> D_upload_req],
     [command |-> 1, format |-> 2, sequence |-> 20, data |-> D_delete_f],
     [command |-> 50, format |-> 2, sequence |-> 21, data |-> <<>>]}

\* The client writes one more frame to the socket
DispatchSend ==
    \E f \in DispatchMenu :
        /\ conn = "open"
        /\ Len(frames) < MaxDispatchFrames
        /\ frames' = Append(frames, f)
        /\ wire' = wire \o BuildFrame(f.command, f.format, f.data, f.sequence)
        /\ UNCHANGED <<fs, upload_sessions, last, nreq, hist, conn, buffer, sent,
                       answered, dispatched, reads, connVars, probeVars>>

\* recv returns all that is in flight
RecvAll == RecvOf({RECV_SIZE})

NextDispatch ==
    \/ DispatchSend
    \/ ClientClose
    \/ RecvAll
    \/ RecvEof

SpecDispatch == InitWith(DispatchFs) /\ [][NextDispatch]_vars

(***************************************************************************)
(* The codecs as functions: each step applies one to a value of a small    *)
(* set and keeps in probe what it was given and what it returned.          *)
(***************************************************************************)
\* Sequence numbers, command bytes and format tags; 21930 is 0x55AA, whose two
\* bytes on the wire are the magic prefix
CodecSequences == {0, 1, 255, 256, 21930, 65535}
CodecCommands == {0, 1, 170, 255}
CodecFormats == {0, 2, 85}

\* Payloads: none, one byte, the magic prefix, the trailer, a trailer and a magic
\* prefix, and nine bytes
CodecPayloads ==
    {<<>>, <<0>>, <<170, 85>>, <<85, 170>>, <<1, 85, 170, 170, 85, 2>>,
     <<8, 18, 18, 1, 47, 26, 1, 110, 255>>}

codecRest == <<fs, upload_sessions, last, nreq, hist, pumpVars, connVars, flood>>

\* build_response_frame of payload bytes, then parse_frame of its bytes
FrameRoundTrip ==
    \E sequence \in CodecSequences, command \in CodecCommands,
       format_type \in CodecFormats, data \in CodecPayloads :
    \E bytes \in {BuildFrame(command, format_type, data, sequence)} :
        /\ probe' = [op |-> "frame",
                      given |-> [command |-> command, format |-> format_type,
                                sequence |-> sequence, data |-> data, bytes |-> bytes],
                      got |-> parse_frame(bytes)]
        /\ UNCHANGED codecRest

\* Values of a varint, up to 2^31 - 1
CodecVarints ==
    {0, 1, 127, 128, 255, 300, 16383, 16384, 2097151, 2097152, 268435455, 268435456,
     2147483647}

\* Field numbers: declared ones and ones that are not
CodecFields == {1, 2, 15, 16, 18, 19, 1000}

\* What follows a value in the data: nothing, or bytes of another field
CodecSuffixes == {<<>>, <<255, 1>>, <<8, 1>>}

\* Strings: '', 'a', 'a/b', and one code point of two, three and four bytes
CodecStrings == {<<>>, <<97>>, <<97, 47, 98>>, <<233>>, <<8364, 97>>, <<128512>>}

\* Byte strings: none, 0x00, 0xFF 0x80, a varint's bytes
CodecBytes == {<<>>, <<0>>, <<255, 128>>, <<172, 2, 8>>}

\* _varint then _decode_varint
VarintRoundTrip ==
    \E v \in CodecVarints, suffix \in CodecSuffixes :
    \E bytes \in {varint(v)} :
        /\ probe' = [op |-> "varint",
                      given |-> [value |-> v, bytes |-> bytes],
                      got |-> decode_varint(bytes \o suffix, 0)]
        /\ UNCHANGED codecRest

\* _key then _decode_field
KeyRoundTrip ==
    \E n \in CodecFields, w \in {0, 1, 2, 5}, suffix \in CodecSuffixes :
    \E bytes \in {key(n, w)} :
        /\ probe' = [op |-> "key",
                      given |-> [field_number |-> n, wire_type |-> w, bytes |-> bytes],
                      got |-> decode_field(bytes \o suffix, 0)]
        /\ UNCHANGED codecRest

\* _encode_bool, then _decode_field and _decode_bool
BoolRoundTrip ==
    \E n \in CodecFields, v \in BOOLEAN, suffix \in CodecSuffixes :
    \E bytes \in {encode_bool(n, v)} :
    LET fld == decode_field(bytes \o suffix, 0) IN
        /\ probe' = [op |-> "bool",
                      given |-> [field_number |-> n, value |-> v, bytes |-> bytes],
                      got |-> [field |-> fld, value |-> decode_bool(bytes \o suffix, fld.offset)]]
        /\ UNCHANGED codecRest

\* _encode_string, then _decode_field and _decode_string
StringRoundTrip ==
    \E n \in CodecFields, v \in CodecStrings, suffix \in CodecSuffixes :
    \E bytes \in {encode_string(n, v)} :
    LET fld == decode_field(bytes \o suffix, 0) IN
        /\ probe' = [op |-> "string",
                      given |-> [field_number |-> n, value |-> v, bytes |-> bytes],
                      got |-> [field |-> fld, value |-> decode_string(bytes \o suffix, fld.offset)]]
        /\ UNCHANGED codecRest

\* _encode_bytes, then _decode_field and _decode_bytes
BytesRoundTrip ==
    \E n \in CodecFields, v \in CodecBytes, suffix \in CodecSuffixes :
    \E bytes \in {encode_bytes(n, v)} :
    LET fld == decode_field(bytes \o suffix, 0) IN
        /\ probe' = [op |-> "bytes",
                      given |-> [field_number |-> n, value |-> v, bytes |-> bytes],
                      got |-> [field |-> fld, value |-> decode_bytes(bytes \o suffix, fld.offset)]]
        /\ UNCHANGED codecRest

\* The fields of request payloads, each as its bytes: operation DELETE_FILE,
\* path '/f'; operation UPLOAD_REQ, path '/', filename 'n', fileSize 300, an
\* entry of the options (sessionId: '1'), isChunk
CodecRequests ==
    {<<encode_int(1, 19), encode_string(2, <<47, 102>>)>>,
     <<encode_int(1, 48), encode_string(2, <<47>>), encode_string(14, <<110>>),
       encode_int(15, 300),
       encode_bytes(6, encode_string(1, K_sessionId) \o encode_string(2, <<49>>)),
       encode_bool(7, TRUE)>>}

\* Fields no UnifiedRequest declares, of the wire types 0, 1, 2 and 5
UnknownFields ==
    {key(19, 0) \o varint(300),
     key(19, 1) \o <<8, 1, 18, 1, 47, 26, 1, 110>>,
     key(20, 2) \o varint(3) \o <<8, 19, 255>>,
     key(1000, 5) \o <<8, 1, 170, 85>>}

RECURSIVE Concat(_)
Concat(chunks) == IF chunks = <<>> THEN <<>> ELSE Head(chunks) \o Concat(Tail(chunks))

\* decode_unified_request of a payload with a field no request declares put in
\* before its field at + 1
UnknownInserted ==
    \E fields \in CodecRequests, unknown \in UnknownFields :
    \E at \in 0..Len(fields) :
        /\ probe' = [op |-> "unknown",
                      given |-> [fields |-> fields, at |-> at, unknown |-> unknown],
                      got |-> decode_unified_request(
                                Concat(SubSeq(fields, 1, at)) \o unknown
                                \o Concat(SubSeq(fields, at + 1, Len(fields))))]
        /\ UNCHANGED codecRest

NextCodec ==
    \/ FrameRoundTrip
    \/ VarintRoundTrip
    \/ KeyRoundTrip
    \/ BoolRoundTrip
    \/ StringRoundTrip
    \/ BytesRoundTrip
    \/ UnknownInserted

SpecCodec == Init /\ [][NextCodec]_vars

(***************************************************************************)
(* A client that writes bytes with no magic prefix in them, and nothing    *)
(* else.  parse_frame finds no prefix and returns None with the buffer as  *)
(* it is, so handle_frame_protocol returns what it was given: flood is the *)
(* length of the buffer that handle_client keeps from one recv to the      *)
(* next.  The bytes are not followed: a buffer of this length is beyond    *)
(* enumeration.                                                            *)
(***************************************************************************)
MaxFloodReads == 130

\* the counts of bytes a recv returns here
FloodSizes == {4096, RECV_SIZE}

\* buffer += data; buffer = self.handle_frame_protocol(..., buffer), for data
\* without a magic prefix after a buffer without one
FloodRecv ==
    \E n \in FloodSizes :
        /\ flood < MaxFloodReads * RECV_SIZE
        /\ flood' = flood + n
        /\ UNCHANGED <<fs, upload_sessions, last, nreq, hist, pumpVars, connVars, probe>>

NextFlood == FloodRecv

SpecFlood == Init /\ [][NextFlood]_vars

(***************************************************************************)
(* Uploads of two clients on one server.  The upload table belongs to the  *)
(* server: the requests of both connections reach the same handlers.  A    *)
(* client names its session "1" or "2" in UPLOAD_REQ or leaves the id to   *)
(* the server; UPLOAD_DATA and UPLOAD_END name a session or name none.     *)
(* Client a uploads the file n, client b the file o.                       *)
(***************************************************************************)
MaxSharedRequests == 4

SID_2 == <<50>>

\* options.sessionId "1" or "2", or no options at all
SharedOptions == {<<>>, [k \in {K_sessionId} |-> SID_1], [k \in {K_sessionId} |-> SID_2]}

SharedName(c) == IF c = <<97>> THEN N_n ELSE N_o

\* The request req of client c is answered by r
ApplyShared(c, r, req) ==
    /\ nreq < MaxSharedRequests
    /\ nreq' = nreq + 1
    /\ fs' = r.fs
    /\ upload_sessions' = r.upload_sessions
    /\ last' = r.last
    /\ hist' = HistoryAfter(hist, upload_sessions, fs, r, req)
    /\ asked' = SetKey(req, "__client_id", c)
    /\ workers' = [d \in Clients |->
                      [workers[d] EXCEPT !.uploads =
                          IF r.last.op = "UPLOAD_REQ" /\ r.last.success
                          THEN (IF d = c THEN @ \cup {r.last.sid} ELSE @ \ {r.last.sid})
                          ELSE @]]
    /\ UNCHANGED <<download_sessions, pumpVars, probeVars>>

SharedUploadReq(c) ==
    \E o \in SharedOptions :
        LET req == WithOptions([path |-> <<Slash>>, name |-> SharedName(c),
                                fileSize |-> 1, chunkSize |-> 1, totalChunks |-> 1], o)
        IN  ApplyShared(c, handle_upload_req(fs, upload_sessions, req, <<49>>), req)

SharedUploadData(c) ==
    \E o \in SharedOptions :
        LET req == WithOptions([chunkIndex |-> 0, data |-> <<1>>], o)
        IN  ApplyShared(c, handle_upload_data(fs, upload_sessions, req), req)

SharedUploadEnd(c) ==
    \E o \in SharedOptions :
        LET req == WithOptions([operation |-> "UPLOAD_END"], o)
        IN  ApplyShared(c, handle_upload_end(fs, upload_sessions, req), req)

NextShared ==
    \/ \E c \in Clients : SharedUploadReq(c)
    \/ \E c \in Clients : SharedUploadData(c)
    \/ \E c \in Clients : SharedUploadEnd(c)

SpecShared == Init /\ [][NextShared]_vars

(***************************************************************************)
(* Uploads of every declared size: UPLOAD_REQ with a chunkSize that is     *)
(* absent, 0, small, the greatest accepted or beyond it, with totalChunks  *)
(* absent, 0 or given; then the chunk of index 0 and UPLOAD_END; and the   *)
(* UPLOAD_REQ that fails: with no name, with a path that leaves the root,  *)
(* and with the name of the directory d, which open() refuses.             *)
(***************************************************************************)
MaxSizesRequests == 3

\* The values of a field of the request: {} is the field left out
SizesFileSizes == {0, 1, 3}
SizesChunkSizes == {{}, {0}, {1}, {2}, {4 * 1024 * 1024}, {4 * 1024 * 1024 + 1}}
SizesTotalChunks == {{}, {0}, {2}}

\* The request with the key k set to the value in v, or without it
WithInt(req, k, v) ==
    IF v = {} THEN req ELSE SetKey(req, k, CHOOSE n \in v : TRUE)

SizesUploadReq ==
    \E size \in SizesFileSizes, chunk \in SizesChunkSizes, total \in SizesTotalChunks :
        /\ nreq < MaxSizesRequests
        /\ UploadReq(WithInt(WithInt([path |-> <<Slash>>, name |-> N_n,
                                      fileSize |-> size, options |-> RetryOptions],
                                     "chunkSize", chunk),
                             "totalChunks", total), <<49>>)

\* '/../x'
P_outside == <<47, 46, 46, 47, 120>>

SizesBadReq ==
    \E req \in {[path |-> <<Slash>>, fileSize |-> 1, chunkSize |-> 1,
                  options |-> RetryOptions],
                 [path |-> P_outside, name |-> N_n, fileSize |-> 1, chunkSize |-> 1,
                  options |-> RetryOptions],
                 [path |-> <<Slash>>, name |-> N_d, fileSize |-> 1, chunkSize |-> 1,
                  options |-> RetryOptions]} :
        /\ nreq < MaxSizesRequests
        /\ UploadReq(req, <<49>>)

SizesUploadData ==
    \E d \in UpData :
        /\ nreq < MaxSizesRequests
        /\ UploadData([chunkIndex |-> 0, data |-> d, options |-> RetryOptions])

SizesUploadEnd ==
    /\ nreq < MaxSizesRequests
    /\ UploadEnd([options |-> RetryOptions])

NextSizes ==
    \/ SizesUploadReq
    \/ SizesBadReq
    \/ SizesUploadData
    \/ SizesUploadEnd

SpecSizes == Init /\ [][NextSizes]_vars

(***************************************************************************)
(* The pump's responses                                                    *)
(***************************************************************************)
\* The k-th frame written to the socket, as a client parses it
ResponseFrame(k) == parse_frame(sent[k]).frame

\* The payload of a response begins with field 1 (success) = 0
SaysFailure(payload) == Len(payload) >= 2 /\ payload[1] = 8 /\ payload[2] = 0

\* The requests the frames fs carry, of those with format tag 0x02, in order
RECURSIVE RequestsOf(_)
RequestsOf(fseq) ==
    IF fseq = <<>> THEN <<>>
    ELSE (IF Head(fseq).format = 2
          THEN <<SetKey(decode_protobuf_data(Head(fseq).data), "__client_id", CLIENT_ID)>>
          ELSE <<>>) \o RequestsOf(Tail(fseq))

\* The bytes of the frames fseq, one after the other
RECURSIVE BytesOf(_)
BytesOf(fseq) ==
    IF fseq = <<>> THEN <<>> ELSE FrameBytes[Head(fseq)] \o BytesOf(Tail(fseq))

SameFrame(parsed, f) ==
    /\ parsed.command = f.command
    /\ parsed.format = f.format
    /\ parsed.sequence = f.sequence
    /\ parsed.data = f.data

\* C4: every frame written to the socket is a well-formed frame that carries
\* the sequence number and the command byte of the request frame it answers,
\* which is the client's frame at the same position, whether the request was
\* dispatched or refused for its format tag.
C4_ResponseRepeatsSequence ==
    /\ Len(sent) = Len(answered)
    /\ Len(sent) <= Len(frames)
    /\ \A k \in 1..Len(sent) :
          \A response \in {parse_frame(sent[k])} :
              /\ response.ok
              /\ response.consumed = Len(sent[k])
              /\ response.frame.sequence = answered[k].sequence
              /\ response.frame.command = answered[k].command
              /\ response.frame.sequence = frames[k].sequence
              /\ response.frame.command = frames[k].command

\* a refused frame and a dispatched frame, both answered, with sequence numbers
\* 65535 and 513
C4_Witness ==
    /\ Len(sent) = 2
    /\ {answered[1].format, answered[2].format} = {1, 2}
    /\ {ResponseFrame(1).sequence, ResponseFrame(2).sequence} = {65535, 513}

\* C5: whatever the reads, the frames parsed are the client's frames in the
\* order they were sent, each has exactly one response, the requests dispatched
\* are those of the frames parsed in the same order, the buffer holds the
\* received bytes of the frames not answered yet and never a whole frame, and
\* the responses written are never changed afterwards.
C5_InOrder ==
    /\ Len(answered) <= Len(frames)
    /\ Len(sent) = Len(answered)
    /\ \A k \in 1..Len(answered) : SameFrame(answered[k], frames[k])
    /\ dispatched = RequestsOf(answered)
    /\ buffer \o wire = BytesOf(SubSeq(frames, Len(answered) + 1, Len(frames)))
    /\ Len(answered) < Len(frames) =>
          Len(buffer) < Len(FrameBytes[frames[Len(answered) + 1]])

C5_ResponsesAppended ==
    [][/\ Len(sent') >= Len(sent)
       /\ SubSeq(sent', 1, Len(sent)) = sent
       /\ SubSeq(dispatched', 1, Len(dispatched)) = dispatched]_vars

OnlyRefused ==
    /\ Len(answered') > Len(answered)
    /\ \A k \in (Len(answered) + 1)..Len(answered') : answered'[k].format # 2

\* C6: a frame with another format tag than 0x02 gets a response frame with
\* success = false, in the protobuf format; it is not among the requests
\* dispatched, and the step that answers it leaves the file system, the
\* session table, the last outcome of a handler and the connection as they were.
C6_Refused ==
    /\ \A k \in 1..Len(sent) :
          answered[k].format # 2 =>
              /\ SaysFailure(ResponseFrame(k).data)
              /\ ResponseFrame(k).format = FORMAT_PROTOBUF
    /\ Len(dispatched) = Cardinality({k \in 1..Len(answered) : answered[k].format = 2})

C6_RefusedChangesNothing ==
    [][OnlyRefused =>
          /\ fs' = fs
          /\ upload_sessions' = upload_sessions
          /\ last' = last
          /\ hist' = hist
          /\ dispatched' = dispatched
          /\ conn' = conn /\ conn # "closed"]_vars

C6_BadFormatRefused == []C6_Refused /\ C6_RefusedChangesNothing

\* a frame with format tag 1 was refused and the frame after it was dispatched
\* on the same connection
C6_Witness ==
    /\ Len(sent) = 2
    /\ answered[1].format = 1
    /\ answered[2].format = 2
    /\ SaysFailure(ResponseFrame(1).data)
    /\ ~SaysFailure(ResponseFrame(2).data)
    /\ Len(dispatched) = 1

(***************************************************************************)
(* The chunked upload: C7 to C10                                           *)
(***************************************************************************)
\* The chunks of history h laid out at offsets index * C in a file of F bytes
Layout(h, F, C) == [k \in 1..F |-> h.data[(k - 1) \div C][((k - 1) % C) + 1]]

\* Size of the file at path p as stat sees it, 0 when nothing is there
SizeOnDisk(f, p) == IF p \in DOMAIN f /\ f[p].type = "file" THEN Len(f[p].data) ELSE 0

\* Session sid was opened for N chunks and has been sent, in any order and any
\* number of times, the data of every index 0..N-1 and nothing else.
AllDelivered(sid, N) ==
    /\ HasSession(upload_sessions, sid)
    /\ hist[sid].clean
    /\ hist[sid].chunkSize <= 4 * 1024 * 1024
    /\ DOMAIN hist[sid].data = 0..(N - 1)

\* The UPLOAD_END of this step succeeded, left the file of session sid with its F
\* bytes laid out chunk by chunk, and removed the session.
Completed(sid) ==
    LET h == hist[sid]
        p == SessionOf(upload_sessions, sid).file_path
    IN  /\ last'.success
        /\ last'.size = h.fileSize
        /\ p \in DOMAIN fs' /\ fs'[p].type = "file"
        /\ fs'[p].data = Layout(h, h.fileSize, h.chunkSize)
        /\ sid \notin Ids(upload_sessions')

UnknownIdFails ==
    (last'.op = "UPLOAD_DATA" /\ last'.sid \notin Ids(upload_sessions))
        => (~last'.success /\ last'.kind = "session-not-found"
            /\ upload_sessions' = upload_sessions /\ fs' = fs)

RECURSIVE SumFirst(_, _)
SumFirst(first, S) ==
    IF S = {} THEN 0
    ELSE LET i == CHOOSE j \in S : TRUE IN first[i] + SumFirst(first, S \ {i})

BytesAreFirstDeliveries ==
    \A k \in 1..Len(upload_sessions) :
        LET s == upload_sessions[k].s
            h == hist[upload_sessions[k].id]
        IN  /\ DOMAIN h.first = s.received_chunks
            /\ s.bytes_received = SumFirst(h.first, s.received_chunks)

\* This step is an UPLOAD_DATA for an index the session had received before
Redelivery ==
    /\ last'.op = "UPLOAD_DATA"
    /\ HasSession(upload_sessions, last'.sid)
    /\ last'.index \in SessionOf(upload_sessions, last'.sid).received_chunks

CountsUnchanged ==
    /\ HasSession(upload_sessions', last'.sid)
    /\ SessionOf(upload_sessions', last'.sid).received_chunks =
           SessionOf(upload_sessions, last'.sid).received_chunks
    /\ SessionOf(upload_sessions', last'.sid).bytes_received =
           SessionOf(upload_sessions, last'.sid).bytes_received

C9_EndNeedsAllChunks ==
    [][(last'.op = "UPLOAD_END" /\ HasSession(upload_sessions, last'.sid)) =>
          LET s == SessionOf(upload_sessions, last'.sid)
              missing == \E i \in 0..(s.total_chunks - 1) : i \notin s.received_chunks
          IN  /\ last'.success => ~missing
              /\ missing => /\ ~last'.success
                            /\ upload_sessions' = upload_sessions
                            /\ s.handle = "open"
                            /\ fs' = fs]_vars

\* UPLOAD_END was refused with index 0 missing and index 1 received
C9_Witness ==
    /\ last.op = "UPLOAD_END" /\ last.kind = "incomplete-upload"
    /\ HasSession(upload_sessions, last.sid)
    /\ SessionOf(upload_sessions, last.sid).received_chunks = {1}
    /\ SessionOf(upload_sessions, last.sid).handle = "open"

OpenSessions(tab) == {i \in 1..Len(tab) : tab[i].s.handle = "open"}

\* An UPLOAD_REQ that succeeded in this step under an id that had a session
Replaced ==
    /\ last'.op = "UPLOAD_REQ"
    /\ last'.success
    /\ HasSession(upload_sessions, last'.sid)

\* C11: no two sessions of the upload table have the same id; a successful
\* UPLOAD_REQ under an id that has a session closes the old session's handle if
\* it is open and leaves one fresh session under the id, with a handle it has
\* just opened; and every step opens and closes as many handles as the table
\* gains and loses, so that no handle is open outside the table.
C11_OneSessionPerId ==
    /\ [](\A i, j \in 1..Len(upload_sessions) :
             upload_sessions[i].id = upload_sessions[j].id => i = j)
    /\ [][Replaced =>
            LET new == SessionOf(upload_sessions', last'.sid)
            IN  /\ last'.closed = Closes(upload_sessions, last'.sid)
                /\ last'.opened = 1
                /\ new.received_chunks = {}
                /\ new.bytes_received = 0
                /\ new.handle = "open"
                /\ new.pending = NoWrite]_vars
    /\ [][Cardinality(OpenSessions(upload_sessions'))
             - Cardinality(OpenSessions(upload_sessions))
          = last'.opened - last'.closed]_vars

\* a session with an open handle was replaced by a fresh one after two other
\* requests, while another session is in the table
C11_Witness ==
    /\ last.op = "UPLOAD_REQ" /\ last.success
    /\ last.closed = 1 /\ last.opened = 1
    /\ Len(upload_sessions) = 2
    /\ SessionOf(upload_sessions, last.sid).received_chunks = {}
    /\ nreq >= 3

(***************************************************************************)
(* Download sessions                                                       *)
(***************************************************************************)
\* What the request handled last asked for: its options.action, its
\* options.sessionId, and the chunkSize and chunkIndex it gives
AskedOption(k) ==
    IF "options" \in DOMAIN asked /\ k \in DOMAIN asked.options
    THEN PyStr(asked.options[k]) ELSE PyNone

AskedAction == AskedOption(K_action).str
AskedSession == AskedOption(K_sessionId).str

AskedChunkSize ==
    IF AskedOption(K_chunkSize) # PyNone THEN AskedOption(K_chunkSize)
    ELSE IF "chunkSize" \in DOMAIN asked THEN PyInt(asked.chunkSize) ELSE PyNone

\* Is the value a number, and which
IsNumeric(v) == v.kind = "int" \/ (v.kind = "str" /\ IntOfStr(v.str).ok)
NumberOf(v) == IF v.kind = "int" THEN v.int ELSE IntOfStr(v.str).value

\* C12: a DOWNLOAD_REQ with options.action = finish and the sessionId of a
\* session that is in the download table answers success = true and takes the
\* session out of the table.
C12_FinishRemoves ==
    [][(AskedAction' = A_finish /\ HasSession(download_sessions, AskedSession'))
        => /\ last'.success
           /\ ~HasSession(download_sessions', AskedSession')]_vars

\* C13: a DOWNLOAD_REQ with options.action = abort answers success = true,
\* whether its sessionId names a session of the table or not, and after it the
\* session it names is not in the table.
C13_AbortSucceeds ==
    [][AskedAction' = A_abort
        => /\ last'.success
           /\ ~HasSession(download_sessions', AskedSession')]_vars

\* C14: a chunk request of a session of the table that carries i in its
\* chunkIndex field, 0 <= i < totalChunks (0 too), is answered with chunkIndex
\* i and the bytes [i * chunkSize, min((i + 1) * chunkSize, fileSize)) of the
\* file, whatever was served before.
C14_ExplicitIndex ==
    [][(/\ AskedAction' = A_chunk
        /\ HasSession(download_sessions, AskedSession')
        /\ "chunkIndex" \in DOMAIN asked'
        /\ asked'.chunkIndex >= 0
        /\ asked'.chunkIndex < SessionOf(download_sessions, AskedSession').totalChunks)
        => LET session == SessionOf(download_sessions, AskedSession')
               i == asked'.chunkIndex
               from == i * session.chunkSize
               to == Min((i + 1) * session.chunkSize, session.fileSize)
               file == fs[session.absolutePath]
           IN  /\ last'.success
               /\ last'.reply.chunkIndex = i
               /\ last'.reply.offset = from
               /\ last'.reply.length = to - from
               /\ "size" \notin DOMAIN file
                    => last'.reply.data = SubSeq(file.data, from + 1, to)]_vars

\* C15: in every session of the table nextChunk is above every index of
\* servedChunks; and a chunk request, whatever its index (in range or not,
\* served before or not, given or not), leaves every session in the table with
\* servedChunks no smaller and nextChunk no lower, and changes bytesSent only
\* by raising it while an index enters servedChunks.
C15_Monotone ==
    /\ [](\A k \in 1..Len(download_sessions) :
            \A i \in download_sessions[k].s.servedChunks :
                download_sessions[k].s.nextChunk >= i + 1)
    /\ [][AskedAction' = A_chunk
            => \A k \in 1..Len(download_sessions) :
                /\ HasSession(download_sessions', download_sessions[k].id)
                /\ \A old \in {download_sessions[k].s},
                      new \in {SessionOf(download_sessions', download_sessions[k].id)} :
                    /\ old.servedChunks \subseteq new.servedChunks
                    /\ new.nextChunk >= old.nextChunk
                    /\ new.bytesSent >= old.bytesSent
                    /\ new.bytesSent # old.bytesSent
                         => new.servedChunks # old.servedChunks]_vars

\* Chunk 2 and then chunk 0 of a session of three chunks have been served:
\* nextChunk stays 3
C15_Witness ==
    /\ AskedAction = A_chunk
    /\ last.success
    /\ last.reply.chunkIndex = 0
    /\ HasSession(download_sessions, last.sid)
    /\ SessionOf(download_sessions, last.sid).servedChunks = {0, 2}
    /\ SessionOf(download_sessions, last.sid).nextChunk = 3

\* The session a start has made, but for its chunkSize: it is in the table under
\* the id of the response, its chunkSize is within [64 KiB, 4 MiB], totalChunks
\* is max(1, ceil(fileSize / chunkSize)) of the file's size, nothing is served,
\* and the response repeats acceptedChunkSize, totalChunks and fileSize.
StartedSession ==
    /\ HasSession(download_sessions, last.sid)
    /\ \A session \in {SessionOf(download_sessions, last.sid)} :
        /\ session.chunkSize >= MIN_STREAM_CHUNK_BYTES
        /\ session.chunkSize <= MAX_STREAM_CHUNK_BYTES
        /\ session.fileSize = StSize(fs[session.absolutePath])
        /\ session.totalChunks = Max(1, Ceil(session.fileSize, session.chunkSize))
        /\ session.nextChunk = 0
        /\ session.bytesSent = 0
        /\ session.servedChunks = {}
        /\ last.reply.acceptedChunkSize = session.chunkSize
        /\ last.reply.totalChunks = session.totalChunks
        /\ last.reply.fileSize = session.fileSize

\* C16 as stated: every session a start makes is as StartedSession says, with a
\* chunkSize of 2 MiB when the request gives none, gives 0, or gives a value
\* that is no number.
C16_StartDefaultsZero ==
    [][(AskedAction' = A_start /\ last'.success)
        => /\ StartedSession'
           /\ (~IsNumeric(AskedChunkSize') \/ NumberOf(AskedChunkSize') = 0)
                => SessionOf(download_sessions', last'.sid).chunkSize
                     = DEFAULT_STREAM_CHUNK_BYTES]_vars

\* C16: every session a start makes is as StartedSession says, with a
\* chunkSize of 2 MiB when the request gives none or a value that is no number,
\* and otherwise the given number brought into [64 KiB, 4 MiB]: a given 0
\* makes 64 KiB.
C16_StartSession ==
    [][(AskedAction' = A_start /\ last'.success)
        => /\ StartedSession'
           /\ \A given \in {AskedChunkSize'},
                 session \in {SessionOf(download_sessions', last'.sid)} :
                IF IsNumeric(given)
                THEN session.chunkSize
                        = Max(MIN_STREAM_CHUNK_BYTES,
                              Min(NumberOf(given), MAX_STREAM_CHUNK_BYTES))
                ELSE session.chunkSize = DEFAULT_STREAM_CHUNK_BYTES]_vars

\* A start that gave chunkSize 0 for the file g has made a session of 64 KiB
\* chunks
C16_Witness ==
    /\ AskedAction = A_start
    /\ AskedChunkSize = PyInt(0)
    /\ last.success
    /\ SessionOf(download_sessions, last.sid).chunkSize = MIN_STREAM_CHUNK_BYTES
    /\ SessionOf(download_sessions, last.sid).totalChunks
         = Ceil(BigSize, MIN_STREAM_CHUNK_BYTES)

(***************************************************************************)
(* The end of a connection                                                 *)
(***************************************************************************)
\* Has the worker of client c terminated, its finally block completed or left
\* by an exception
Terminated(c) == workers[c].pc \in {"done", "raised"}

\* C17: once the worker of a connection has terminated, no upload session that
\* an UPLOAD_REQ of that connection created is in the upload table.
C17_UploadsSwept ==
    \A c \in Clients :
        Terminated(c) => \A sid \in workers[c].uploads : ~HasSession(upload_sessions, sid)

\* C18: once the worker of a connection has terminated, no download session
\* whose clientId is that connection's is in the download table, whatever the
\* other connection did meanwhile.
C18_DownloadsSwept ==
    \A c \in Clients :
        Terminated(c)
            => \A k \in 1..Len(download_sessions) : download_sessions[k].s.clientId # c

(***************************************************************************)
(* Framing errors and bytes before a frame                                 *)
(***************************************************************************)
\* Has the server read all that the client wrote, the client having closed:
\* no byte will arrive any more
AllRead == conn # "open" /\ wire = <<>>

\* Is the frame f among the frames that were decoded
WasDecoded(f) ==
    \E a \in 1..Len(answered) :
        /\ answered[a].command = f.command
        /\ answered[a].sequence = f.sequence
        /\ answered[a].format = f.format
        /\ answered[a].data = f.data

\* C19: a well-formed frame written after a frame with a framing error (a
\* declared length above 4 MiB, a wrong trailer) has been decoded and answered
\* once the server has read all the client wrote.
C19_ResumesAfterFramingError ==
    \A k, j \in 1..Len(frames) :
        (/\ AllRead
         /\ k < j
         /\ IsNoise(frames[k])
         /\ frames[k].noise \in {"length", "trailer"}
         /\ ~IsNoise(frames[j]))
            => /\ WasDecoded(frames[j])
               /\ Len(sent) >= 1

\* C20: when bytes without a magic prefix were written and after them only
\* well-formed frames, each frame is decoded once and in order with its own
\* fields, and what is taken off the buffer is those bytes and the frames: once
\* all is read, the buffer is empty.
C20_GarbageThenFrames ==
    (/\ AllRead
     /\ Len(frames) >= 2
     /\ IsNoise(frames[1])
     /\ frames[1].noise = "garbage"
     /\ \A j \in 2..Len(frames) : ~IsNoise(frames[j]))
        => /\ Len(answered) = Len(frames) - 1
           /\ \A j \in 2..Len(frames) :
                /\ answered[j - 1].command = frames[j].command
                /\ answered[j - 1].sequence = frames[j].sequence
                /\ answered[j - 1].data = frames[j].data
           /\ buffer = <<>>

(***************************************************************************)
(* The codecs                                                              *)
(***************************************************************************)
\* CRC8 with polynomial 0x07 and seed 0, bit by bit: the crc after one more byte
RECURSIVE Crc8Bits(_, _)
Crc8Bits(crc, n) ==
    IF n = 0 THEN crc
    ELSE CHOOSE r \in
            {Crc8Bits(IF c >= 128 THEN Xor8((c * 2) % 256, 7) ELSE (c * 2) % 256, n - 1) :
                c \in {crc}} : TRUE

RECURSIVE Crc8Ref(_, _)
Crc8Ref(data, crc) ==
    IF data = <<>> THEN crc
    ELSE CHOOSE r \in
            {Crc8Ref(Tail(data), c) : c \in {Crc8Bits(Xor8(crc, Head(data)), 8)}} : TRUE

\* C21: parse_frame of the bytes build_response_frame makes of a sequence
\* number, a command byte, a format tag and a payload returns a frame with
\* these values, with the CRC8 (polynomial 0x07, seed 0) of the bytes from the
\* length field to the end of the payload, and consumed = 13 + the payload's
\* length; the decoded frame encoded again gives the same bytes.
C21_FrameRoundTrip ==
    probe.op = "frame"
        => /\ probe.got.ok
           /\ probe.got.frame.command = probe.given.command
           /\ probe.got.frame.format = probe.given.format
           /\ probe.got.frame.sequence = probe.given.sequence
           /\ probe.got.frame.data = probe.given.data
           /\ probe.got.frame.data_length = Len(probe.given.data)
           /\ probe.got.frame.crc
                = Crc8Ref(SubSeq(probe.given.bytes, 3, 10 + Len(probe.given.data)), 0)
           /\ probe.got.consumed = 13 + Len(probe.given.data)
           /\ Len(probe.given.bytes) = 13 + Len(probe.given.data)
           /\ BuildFrame(probe.got.frame.command, probe.got.frame.format,
                         probe.got.frame.data, probe.got.frame.sequence)
                = probe.given.bytes

\* A frame whose sequence number is 0x55AA and whose payload holds a trailer and
\* a magic prefix has gone through both
C21_Witness ==
    /\ probe.op = "frame"
    /\ probe.given.sequence = 21930
    /\ probe.given.data = <<1, 85, 170, 170, 85, 2>>
    /\ probe.got.ok
    /\ probe.got.frame.sequence = 21930

\* C25: the wire codec round-trips. Decoding what the encoder made of a value
\* gives the value back and ends exactly after the encoded bytes, for the
\* unsigned varint, the key (field_number << 3) | wire_type, the bool, the
\* string and the bytes; and a request payload with a field of an unknown tag
\* of wire type 0, 1, 2 or 5 put in decodes to the request it decodes to
\* without it.
C25_CodecRoundTrip ==
    /\ probe.op = "varint"
        => /\ probe.got.ok
           /\ probe.got.value = probe.given.value
           /\ probe.got.offset = Len(probe.given.bytes)
    /\ probe.op = "key"
        => /\ probe.got.ok
           /\ probe.got.field_number = probe.given.field_number
           /\ probe.got.wire_type = probe.given.wire_type
           /\ probe.got.offset = Len(probe.given.bytes)
    /\ probe.op \in {"bool", "string", "bytes"}
        => /\ probe.got.field.ok
           /\ probe.got.field.field_number = probe.given.field_number
           /\ probe.got.field.wire_type = (IF probe.op = "bool" THEN 0 ELSE 2)
           /\ probe.got.value.ok
           /\ probe.got.value.value = probe.given.value
           /\ probe.got.value.offset = Len(probe.given.bytes)
    /\ probe.op = "unknown"
        => probe.got = decode_unified_request(Concat(probe.given.fields))

\* A varint of five bytes came back, a string with a code point of four bytes
\* came back, and an unknown field of wire type 5 was put in before the last
\* fields of an upload request
C25_WitnessVarint ==
    /\ probe.op = "varint"
    /\ probe.given.value = 2147483647
    /\ Len(probe.given.bytes) = 5
    /\ probe.got.ok
    /\ probe.got.value = 2147483647

C25_WitnessUnknown ==
    /\ probe.op = "unknown"
    /\ probe.given.at = 2
    /\ Len(probe.given.fields) = 6
    /\ probe.given.unknown = key(1000, 5) \o <<8, 1, 170, 85>>
    /\ Get(probe.got, "filename", <<>>) = <<110>>
    /\ Get(probe.got, "fileSize", 0) = 300
    /\ Get(probe.got, "isChunk", FALSE)
    /\ Get(Get(probe.got, "options", <<>>), K_sessionId, <<>>) = <<49>>

(***************************************************************************)
(* The dispatch of the requests, as the client sees it                     *)
(***************************************************************************)
\* The fields of a response's payload, in their order: number, wire type, and
\* the varint or the bytes
RECURSIVE FieldsFrom(_, _, _)
FieldsFrom(data, offset, acc) ==
    IF offset >= Len(data) THEN acc
    ELSE CHOOSE out \in
        {IF fld.wire_type = 0
         THEN CHOOSE r \in
                {FieldsFrom(data, v.offset,
                            Append(acc, [n |-> fld.field_number, int |-> v.value,
                                         bytes |-> <<>>])) :
                    v \in {decode_varint(data, fld.offset)}} : TRUE
         ELSE CHOOSE r \in
                {FieldsFrom(data, b.offset,
                            Append(acc, [n |-> fld.field_number, int |-> 0,
                                         bytes |-> b.value])) :
                    b \in {decode_bytes(data, fld.offset)}} : TRUE :
            fld \in {decode_field(data, offset)}} : TRUE

\* The fields of the i-th response that was sent
SentFields(i) == FieldsFrom(parse_frame(sent[i]).frame.data, 0, <<>>)

HasField(fields, n) == \E k \in 1..Len(fields) : fields[k].n = n

FieldOf(fields, n) == fields[CHOOSE k \in 1..Len(fields) : fields[k].n = n]

\* success and message of the i-th response
SentSuccess(i) == HasField(SentFields(i), 1) /\ FieldOf(SentFields(i), 1).int = 1
SentMessage(i) ==
    IF HasField(SentFields(i), 2) THEN FieldOf(SentFields(i), 2).bytes ELSE <<>>

\* The operation process_request looks at, for a frame that was answered
OperationOf(frame) ==
    LET request == decode_protobuf_data(frame.data)
    IN  IF "operation" \in DOMAIN request THEN request["operation"]
        ELSE command_map(frame.command)

\* The operations process_request has a branch for
Handled ==
    {"PING", "ping", "LIST_FILES", "list_files", "FILE_INFO", "file_info",
     "DOWNLOAD_FILE", "download_file", "DOWNLOAD_REQ", "download_req", "UPLOAD_FILE",
     "upload_file", "DELETE_FILE", "delete_file", "RENAME_FILE", "rename_file",
     "CREATE_DIR", "create_directory", "UPLOAD_REQ", "UPLOAD_DATA", "UPLOAD_END",
     "DISCONNECT"}

\* Every frame that was read has its response among the frames sent, each of
\* them a valid frame, and a request for an operation without a handler is
\* answered success = false
AllAnswered ==
    /\ (wire = <<>> /\ buffer = <<>>) => Len(sent) = Len(frames)
    /\ \A i \in 1..Len(sent) :
        /\ parse_frame(sent[i]).ok
        /\ parse_frame(sent[i]).consumed = Len(sent[i])
        /\ parse_frame(sent[i]).frame.sequence = answered[i].sequence
        /\ (answered[i].format = FORMAT_PROTOBUF /\ answered[i].command # CMD_CONNECT
            /\ OperationOf(answered[i]) \notin Handled) => ~SentSuccess(i)

\* C22: whatever the operation of a decoded request and whatever failure its
\* handler hits, a response is returned and sent in a valid frame, with
\* success = false for an operation without a handler, and the connection
\* stays open: the server closes it only after the client did.
C22_AlwaysAnswered ==
    /\ []AllAnswered
    /\ [][conn = "open" => conn' # "closed"]_vars

\* The payloads of DispatchMenu with a field that does not decode
Malformed(data) == data \in {D_delete_f_cut, D_delete_utf8, D_cut_varint}

\* C23: a request whose payload holds a malformed field is answered as a PING,
\* with the message "pong", and no file or session handler runs: the files are
\* as they were when only such requests were sent.
C23_MalformedIsPing ==
    /\ \A i \in 1..Len(sent) :
        (answered[i].format = FORMAT_PROTOBUF /\ Malformed(answered[i].data))
            => SentSuccess(i) /\ SentMessage(i) = Utf8Encode(M_pong)
    /\ (\A i \in 1..Len(frames) : Malformed(frames[i].data)) => fs = DispatchFs

\* C24: every response the server sends has the field processTimeMs (9), with a
\* value >= 0, and the field timestamp (16).
C24_EveryResponseTimed ==
    \A i \in 1..Len(sent) :
        /\ HasField(SentFields(i), 9)
        /\ FieldOf(SentFields(i), 9).int >= 0
        /\ HasField(SentFields(i), 16)

\* C26: a successful LIST_FILES returns one file_info for each child of the
\* directory, ordered by the names compared with no regard to case, with size
\* 0 for a directory.
C26_ListingOrdered ==
    (last.op = "LIST_FILES" /\ last.success)
        => LET files == last.reply.files
               dir == CHOOSE t \in last.safe : TRUE
           IN  /\ Len(files) = Cardinality(Children(fs, dir))
               /\ \A q \in Children(fs, dir) :
                    \E i \in 1..Len(files) : files[i].name = q[Len(q)]
               /\ \A i \in 1..Len(files) : files[i].type = "directory" => files[i].size = 0
               /\ \A i, j \in 1..Len(files) :
                    i < j => StrLess(Lower(files[i].name), Lower(files[j].name))

\* C27: after a successful UPLOAD_FILE of the bytes d, DOWNLOAD_FILE of the
\* file answers with data = d and fileSize = Len(d).
C27_DownloadReturnsUpload ==
    (/\ Len(sent) = 2 /\ Len(dispatched) = 2
     /\ Get(dispatched[1], "operation", "") = "UPLOAD_FILE" /\ SentSuccess(1)
     /\ Get(dispatched[2], "operation", "") = "DOWNLOAD_FILE")
        => /\ SentSuccess(2)
           /\ HasField(SentFields(2), 4)
           /\ FieldOf(SentFields(2), 4).bytes = dispatched[1]["data"]
           /\ HasField(SentFields(2), 10)
           /\ FieldOf(SentFields(2), 10).int = Len(dispatched[1]["data"])

\* C28: an UPLOAD_REQ with the name of the file in the field filename, and with
\* fileSize, chunkSize and totalChunks, opens an upload session and is answered
\* success = true.
C28_FilenameOpensSession ==
    \A i \in 1..Len(sent) :
        (answered[i].format = FORMAT_PROTOBUF /\ answered[i].data = D_upload_req)
            => SentSuccess(i) /\ upload_sessions # <<>>

(***************************************************************************)
(* The session tables and the workers                                      *)
(***************************************************************************)
\* C29: access to a session table is serialized.  While the sweep of an ended
\* connection is in the middle of its enumeration of the download table, no
\* other worker inserts into the table or removes from it, and so no
\* enumeration finds the table changed.
C29_TablesSerialized ==
    /\ [][\A c \in Clients :
            workers[c].pc = "sweeping" => download_sessions' = download_sessions]_vars
    /\ [](\A c \in Clients : workers[c].pc # "raised")

(***************************************************************************)
(* The read buffer                                                         *)
(***************************************************************************)
\* C30: whatever the client sends, the buffer kept after a read is never longer
\* than one frame of the greatest size (13 bytes and 4 MiB) and a part of the
\* next one.
C30_BufferBounded == flood <= 2 * (13 + MAX_FRAME_DATA)

(***************************************************************************)
(* The upload sessions and the errors of their handlers                    *)
(***************************************************************************)
\* C31: an UPLOAD_DATA or UPLOAD_END that fails on an unexpected error while it
\* works on a session of the table (the seek, the write or the open of the
\* session's file raises) leaves no session under that id in the table.
C31_ErrorDiscardsSession ==
    (last.op \in {"UPLOAD_DATA", "UPLOAD_END"} /\ last.kind = "internal-error")
        => ~HasSession(upload_sessions, last.sid)

\* The session of the table that UPLOAD_REQ created last
MostRecent(tab, h) ==
    CHOOSE x \in Ids(tab) : \A y \in Ids(tab) : h[y].born <= h[x].born

\* The step handles an UPLOAD_DATA or an UPLOAD_END
UploadStep == nreq' = nreq + 1 /\ last'.op \in {"UPLOAD_DATA", "UPLOAD_END"}

\* The sessionId the request handled last gave in its options, "" if none
GivenSession == Get(Get(asked, "options", <<>>), K_sessionId, <<>>)

\* Every session but the one under sid is in the table after the step as it
\* was before, and no session but that one is new
OthersUntouched(sid) ==
    /\ \A k \in 1..Len(upload_sessions) :
          upload_sessions[k].id # sid =>
              \E j \in 1..Len(upload_sessions') : upload_sessions'[j] = upload_sessions[k]
    /\ \A j \in 1..Len(upload_sessions') :
          upload_sessions'[j].id # sid =>
              \E k \in 1..Len(upload_sessions) : upload_sessions[k] = upload_sessions'[j]

\* C32: an UPLOAD_DATA or UPLOAD_END without options.sessionId fails when the
\* upload table is empty, and otherwise acts on the session that UPLOAD_REQ
\* created last, whichever connection created it (an id created again counts
\* from its last creation), and on no other; with a sessionId it leaves every
\* session but the one of that id as it was.
C32_FallbackIsNewest ==
    [][UploadStep =>
        IF GivenSession' # <<>>
        THEN last'.sid = GivenSession' /\ OthersUntouched(GivenSession')
        ELSE IF upload_sessions = <<>>
            THEN ~last'.success /\ upload_sessions' = <<>>
        ELSE /\ last'.sid = MostRecent(upload_sessions, hist)
             /\ OthersUntouched(last'.sid)]_vars

\* An UPLOAD_DATA without sessionId was accepted into a session that the other
\* client created, the later of two sessions, under an id that was created twice
C32_Witness ==
    /\ last.op = "UPLOAD_DATA" /\ last.success
    /\ GivenSession = <<>>
    /\ Len(upload_sessions) = 2
    /\ upload_sessions[2].id = last.sid
    /\ hist[last.sid].again
    /\ last.sid \notin workers[asked["__client_id"]].uploads
    /\ 0 \in upload_sessions[2].s.received_chunks
    /\ upload_sessions[1].s.received_chunks = {}

\* C33: every session of the upload table has a chunkSize of at most 4 MiB and
\* a totalChunks of at least 1, and where the UPLOAD_REQ declared no totalChunks
\* above 0 the session's totalChunks is max(1, ceil(fileSize / chunkSize)).
C33_TotalChunksAtLeastOne ==
    \A k \in 1..Len(upload_sessions) :
        LET s == upload_sessions[k].s
            h == hist[upload_sessions[k].id]
        IN  /\ s.chunk_size <= 4 * 1024 * 1024
            /\ s.total_chunks >= 1
            /\ h.totalChunks <= 0 =>
                   s.total_chunks = Max(1, Ceil(s.file_size, s.chunk_size))

(***************************************************************************)
(* The routing of a frame to its handler                                   *)
(***************************************************************************)
\* The operation codes of the wire table that have a handler
HandlerCodes == {1, 3, 4, 16, 17, 18, 19, 20, 32, 33, 48, 49, 50, 51}

\* Every frame the client sent was given to process_frame_request, and the
\* request handled last is the one of the last frame
LastFrameHandled ==
    /\ frames # <<>>
    /\ Len(dispatched) = Len(frames)
    /\ wire = <<>> /\ buffer = <<>>

\* C34: a frame whose command byte is the code of an operation with a handler
\* is handled by that operation's handler, when its payload names no
\* operation and also when it names one.
C34_RoutedByCommand ==
    (LastFrameHandled /\ frames[Len(frames)].command \in HandlerCodes)
        => /\ "operation" \notin DOMAIN decode_protobuf_data(frames[Len(frames)].data)
                => last.op = operation_map(frames[Len(frames)].command)
           /\ last.op = operation_map(frames[Len(frames)].command)

(***************************************************************************)
(* The length of a response frame's payload                                *)
(***************************************************************************)
\* The bytes of the file that the response to the request handled last carries
\* in its data: the whole file for DOWNLOAD_FILE, the chunk for DOWNLOAD_REQ
DataLength(o) ==
    IF o.op = "DOWNLOAD_FILE" THEN o.reply.fileSize ELSE o.reply.length

\* len(encode_unified_response(response)) for the response of a download, as
\* far as its fields success, message, data and fileSize go.  The message is
\* counted as one character, and the fields a response has beside these four
\* (chunkIndex, totalChunks, sessionId, processTimeMs, timestamp) are not
\* counted: the payload of the frame is no shorter than this.
PayloadLength(o) ==
    Len(encode_bool(1, o.success)) + Len(encode_string(2, M_text))
    + encode_bytes_length(4, DataLength(o)) + Len(encode_int(10, o.reply.fileSize))

\* The request handled last was answered with bytes of a file
Downloaded ==
    /\ last.success
    /\ \/ last.op = "DOWNLOAD_FILE"
       \/ last.op = "DOWNLOAD_REQ" /\ last.reply.action = A_chunk

\* C35: the payload of the frame that answers a DOWNLOAD_FILE or a chunk of
\* DOWNLOAD_REQ is at most 4 MiB long, the greatest length parse_frame accepts.
C35_PayloadWithinFrame == Downloaded => PayloadLength(last) <= MAX_FRAME_DATA

(***************************************************************************)
(* The chunks of an upload session                                         *)
(***************************************************************************)
\* C36: in every upload session each index of receivedChunks is at least 0 and
\* below totalChunks, and the write of an UPLOAD_DATA ends at or before the
\* offset fileSize of the session's file: a chunk with an index out of range,
\* or with data that runs past the end of the file, is not written.
C36_ChunksInRange ==
    \A k \in 1..Len(upload_sessions) :
        LET s == upload_sessions[k].s
        IN  /\ \A i \in s.received_chunks : i >= 0 /\ i < s.total_chunks
            /\ s.pending.data # <<>>
                   => s.pending.offset + Len(s.pending.data) <= s.file_size

\* C37: an UPLOAD_REQ that is answered success = false leaves the upload table
\* as it was: a session under the request's sessionId is still there, with its
\* handle and its receivedChunks.
C37_FailedReqKeepsTable ==
    [][(nreq' = nreq + 1 /\ last'.op = "UPLOAD_REQ" /\ ~last'.success)
          => upload_sessions' = upload_sessions]_vars

(***************************************************************************)
(* The ids of the download sessions                                        *)
(***************************************************************************)
\* C38: a DOWNLOAD_REQ start that succeeds returns an id that no session of
\* the download table has, and leaves every session of the table in it, with
\* the clientId it had.
C38_StartKeepsSessions ==
    [][(/\ nreq' = nreq + 1
        /\ last'.op = "DOWNLOAD_REQ" /\ last'.success
        /\ last'.reply.action = A_start)
          => /\ ~HasSession(download_sessions, last'.sid)
             /\ \A k \in 1..Len(download_sessions) :
                  /\ HasSession(download_sessions', download_sessions[k].id)
                  /\ SessionOf(download_sessions', download_sessions[k].id).clientId
                         = download_sessions[k].s.clientId]_vars

(***************************************************************************)
(* The root of the sandbox                                                 *)
(***************************************************************************)
\* C39: a DELETE_FILE whose path resolves to the root directory is answered
\* success = false, and the root directory exists after it.
C39_RootNotDeleted ==
    (last.op = "DELETE_FILE" /\ root_dir \in last.safe)
        => ~last.success /\ Exists(fs, root_dir)

================================================================
